---- MODULE Spec2Model ----
(***************************************************************************)
(* ClaimStriker change-detection and claim-reconciliation pipeline:        *)
(* the claim-sync, channel-sync and claim-detect workers, the queue that   *)
(* retries them, and the event store they reconcile against.               *)
(* Every await of a handler is one step, so that concurrent jobs           *)
(* interleave exactly where the code can be suspended.                     *)
(***************************************************************************)
EXTENDS Integers, Sequences, FiniteSets, TLC

\* ------------------------------------------------------------- bounds
NumClaimSyncJobs == 2
NumClaimIds == 1
MaxPages == 2
MaxPageLen == 1
MaxFailures == 1
NumSyncJobs == 2
NumDetectJobs == 2
MaxVideoPages == 2
NumChannels == 3
MaxTicks == 2
JobFaults == 5

\* ------------------------------------------------------------- queue options
DefaultAttempts == 3

\* A claim-sync queue left with the default job options.
QueueDefaultAttempts == DefaultAttempts

ClaimSyncAttempts == 2
NotificationAttempts == 5

\* delay: i * 5000
StaggerMs == 5000

ClaimSyncJobIds == 1..NumClaimSyncJobs
ClaimIds == 1..NumClaimIds
SyncJobIds == 1..NumSyncJobs
DetectJobIds == 1..NumDetectJobs
ChannelIds == 1..NumChannels
ChannelStatuses == {"ACTIVE", "PAUSED", "ERROR", "REVOKED"}

\* ------------------------------------------------------------- values
\* An optional value is a sequence of length 0 (null/undefined) or 1.
Null == <<>>
Some(x) == <<x>>

\* A credential is named by the job attempt whose refresh obtained it;
\* the pair stored when the channel was connected is StoredToken.
StoredToken == <<0, 0>>
IssuedToken(j, attempt) == <<j, attempt>>

TrackedVideo == "v1"
UntrackedVideo == "vX"

ErrForbidden == "403 Forbidden"
ErrUnavailable == "503 Service Unavailable"
ErrPersistence == "PersistenceError"
ErrUnique == "Unique constraint failed on the fields: (youtubeClaimId)"
ErrUniqueVideo == "Unique constraint failed on the fields: (youtubeVideoId)"
ErrQueue == "Queue unavailable"
ErrToken == "Failed to refresh access token"
ErrInvalidGrant == "invalid_grant"
\* What refreshAccessToken may throw: its own error, or the OAuth client's.
RefreshErrors == {ErrToken, ErrInvalidGrant}
PlatformErrors == {ErrForbidden, ErrUnavailable}
\* What getChannelInfo may throw.
ChannelSyncErrors == PlatformErrors \cup {ErrToken}

MsgNoContentId == "No Content ID access - partner API not available for this account"
MsgAccessDenied == "Content ID API access denied - partner access required"

\* error.message?.includes('403') || error.message?.includes('Access Not Configured')
IsPermissionError(msg) == msg \in {ErrForbidden}

\* ------------------------------------------------------------- claim normalizer
\* String.prototype.toLowerCase on the strings the platform sends here.
ToLower(s) ==
  CASE s = "Block" -> "block"
    [] s = "Monetize" -> "monetize"
    [] s = "Appealed" -> "appealed"
    [] s = "Active" -> "active"
    [] OTHER -> s

\* A policy action taken from policy even when appliedPolicy is present.
PolicyActionOfPolicy(policy, appliedPolicy) ==
  LET policyToCheck == IF policy # Null THEN policy ELSE appliedPolicy
  IN IF policyToCheck = Null THEN "unknown"
     ELSE IF Len(policyToCheck[1]) = 0 THEN "unknown"
     ELSE ToLower(policyToCheck[1][1])

\* A policy is Null or Some(rules), rules a sequence of rule actions, "" for a
\* rule without an action.
parsePolicyAction(policy, appliedPolicy) ==
  LET policyToCheck == IF appliedPolicy # Null THEN appliedPolicy ELSE policy
  IN IF policyToCheck = Null THEN "unknown"
     ELSE IF Len(policyToCheck[1]) = 0 THEN "unknown"
     ELSE IF policyToCheck[1][1] = "" THEN "unknown"
     ELSE ToLower(policyToCheck[1][1])

mapStatus(status) ==
  LET s == ToLower(status)
  IN CASE s = "active" -> "ACTIVE"
       [] s = "inactive" -> "RESOLVED"
       [] s \in {"appealed", "disputed"} -> "DISPUTED"
       [] s \in {"pending", "potential"} -> "ACTIVE"
       [] OTHER -> "ACTIVE"

\* Strings the parser scans are sequences of characters. Seconds are kept as
\* whole numbers of 1/SecUnit second: the fractions that occur are whole
\* milliseconds.
SecUnit == 1000
DigitChars == {"0", "1", "3", "5"}
DigitVal(c) == CASE c = "0" -> 0 [] c = "1" -> 1 [] c = "3" -> 3 [] c = "5" -> 5
RECURSIVE Pow10(_)
Pow10(n) == IF n = 0 THEN 1 ELSE 10 * Pow10(n - 1)

\* \d+ at position i: the length of the run of digits it takes.
RECURSIVE DigitRun(_, _)
DigitRun(str, i) ==
  IF i <= Len(str) /\ str[i] \in DigitChars THEN 1 + DigitRun(str, i + 1) ELSE 0

\* parseFloat of the n digits at position i.
RECURSIVE NumVal(_, _, _)
NumVal(str, i, n) ==
  IF n = 0 THEN 0 ELSE NumVal(str, i, n - 1) * 10 + DigitVal(str[i + n - 1])

\* (?:(\d+)H)? and (?:(\d+)M)? at position pos: the captured number, 0 when
\* the group does not take part in the match, and where the match goes on.
UnitGroup(str, pos, unit) ==
  LET n == DigitRun(str, pos)
  IN IF n > 0 /\ pos + n <= Len(str) /\ str[pos + n] = unit
     THEN [val |-> NumVal(str, pos, n), next |-> pos + n + 1, took |-> TRUE]
     ELSE [val |-> 0, next |-> pos, took |-> FALSE]

\* (?:(\d+(?:\.\d+)?)S)? at position pos, in 1/SecUnit seconds.
SecondsGroup(str, pos) ==
  LET n == DigitRun(str, pos)
      dot == pos + n
      m == IF n > 0 /\ dot <= Len(str) /\ str[dot] = "." THEN DigitRun(str, dot + 1) ELSE 0
  IN IF n > 0 /\ m > 0 /\ dot + m + 1 <= Len(str) /\ str[dot + m + 1] = "S"
     THEN [val |-> NumVal(str, pos, n) * SecUnit
                     + (NumVal(str, dot + 1, m) * SecUnit) \div Pow10(m),
           next |-> dot + m + 2, took |-> TRUE]
     ELSE IF n > 0 /\ dot <= Len(str) /\ str[dot] = "S"
          THEN [val |-> NumVal(str, pos, n) * SecUnit, next |-> dot + 1, took |-> TRUE]
          ELSE [val |-> 0, next |-> pos, took |-> FALSE]

\* The places of the string where the regular expression's PT matches.
PTAt(str) == {i \in 1..Len(str) : i < Len(str) /\ str[i] = "P" /\ str[i + 1] = "T"}
Least(S) == CHOOSE i \in S : \A j \in S : i <= j

\* parseIsoDuration, in 1/SecUnit seconds.
parseIsoDuration(duration) ==
  IF PTAt(duration) = {} THEN 0
  ELSE LET h == UnitGroup(duration, Least(PTAt(duration)) + 2, "H")
           mi == UnitGroup(duration, h.next, "M")
           sec == SecondsGroup(duration, mi.next)
       IN h.val * 3600 * SecUnit + mi.val * 60 * SecUnit + sec.val

\* Math.round(secs * 1000) of a number of 1/SecUnit seconds.
UnitsPerMs == SecUnit \div 1000
RoundMs(units) == (2 * units + UnitsPerMs) \div (2 * UnitsPerMs)

\* x || 'PT0S'
OrPT0S(str) == IF str = <<>> THEN <<"P", "T", "0", "S">> ELSE str

\* matchInfo is Null (undefined) or Some([matchSegments]); matchSegments is
\* Null or Some(list); video_segment and channel are Null or Some(value).
\* The result is Null or Some(match details).
parseMatchInfo(matchInfo) ==
  IF \/ matchInfo = Null
     \/ matchInfo[1].matchSegments = Null
     \/ Len(matchInfo[1].matchSegments[1]) = 0
  THEN Null
  ELSE LET segment == matchInfo[1].matchSegments[1][1]
           videoSegment == segment.video_segment
       IN IF videoSegment = Null THEN Null
          ELSE LET startSecs == parseIsoDuration(OrPT0S(videoSegment[1].start))
                   durationSecs == parseIsoDuration(OrPT0S(videoSegment[1].duration))
               IN Some([matchStartMs |-> RoundMs(startSecs),
                        matchEndMs |-> RoundMs(startSecs + durationSecs),
                        matchDurationSecs |-> durationSecs,
                        matchType |-> IF segment.channel = Null THEN "unknown"
                                      ELSE segment.channel[1]])

\* The duration strings a claim may carry: PT followed by any of an hour, a
\* minute and a seconds part, well formed or not, and strings of other shapes.
DurationStrings ==
  {p \o h \o mi \o sec :
     p \in {<<"P", "T">>, <<"P">>},
     h \in {<<>>, <<"1", "H">>},
     mi \in {<<>>, <<"1", "M">>},
     sec \in {<<>>, <<"3", "0", "S">>, <<"0", "S">>, <<"1", ".", "5", "S">>,
              <<"0", ".", "0", "0", "5", "S">>, <<"3", "0">>}}
    \cup {<<>>, <<"a", "b", "c">>, <<"x", "P", "T", "5", "S">>}
MatchSegments ==
  [video_segment : {Null} \cup {Some(v) : v \in [start : DurationStrings,
                                                  duration : DurationStrings]},
   channel : {Null, Some("audio")}]
OtherSegment ==
  [video_segment |-> Some([start |-> <<"P", "T", "1", "H">>,
                           duration |-> <<"P", "T", "1", "H">>]),
   channel |-> Some("video")]
MatchInfos ==
  {Null, Some([matchSegments |-> Null]), Some([matchSegments |-> Some(<<>>)])}
    \cup {Some([matchSegments |-> Some(<<seg>>)]) : seg \in MatchSegments}
    \cup {Some([matchSegments |-> Some(<<seg, OtherSegment>>)]) : seg \in MatchSegments}

\* The claims the rights-management API may return in a search page.
ClaimStatuses == {"active", "Appealed"}
ClaimPolicies == {<<Some(<<"monetize">>), Null>>, <<Some(<<"monetize">>), Some(<<"Block">>)>>}
ClaimInputs ==
  [id : ClaimIds, videoId : {TrackedVideo, UntrackedVideo},
   status : ClaimStatuses, pol : ClaimPolicies,
   matchInfo : {Null}, timeCreated : {Null}]
NoClaim ==
  [id |-> 0, videoId |-> "", status |-> "", pol |-> <<Null, Null>>,
   matchInfo |-> Null, timeCreated |-> Null]

\* ------------------------------------------------------------- state diff engine
\* Array.prototype.join(', ')
RECURSIVE Join(_)
Join(seq) ==
  IF Len(seq) = 0 THEN ""
  ELSE IF Len(seq) = 1 THEN seq[1]
  ELSE seq[1] \o ", " \o Join(Tail(seq))

\* A change description: the text the template literal evaluates to, kept
\* with the literal's fixed head, which is the part the classification's
\* substring tests can match, and the values interpolated into it.
Change(head, args, tail) ==
  [head |-> head, args |-> args, text |-> head \o Join(args) \o tail]
TxtBlockedIn == "Video is blocked in "
TxtNewBlocks == "New region blocks: "
TxtUpload == "Upload status changed from processed to "
TxtPrivacy == "Privacy status changed from public to "
TxtGone == "Video is no longer accessible on YouTube. It may have been deleted or made private."

\* Number.prototype.toString for the region counts that occur.
Str(n) == CASE n = 0 -> "0" [] n = 1 -> "1" [] n = 2 -> "2" [] OTHER -> "many"

Range(seq) == {seq[x] : x \in DOMAIN seq}

\* A diff that reports the blocked regions as on a first sync, whatever the
\* previous state.
DiffAsFirstSync(currentVideo, previousVideo) ==
  IF Len(currentVideo.blockedRegions) > 0
  THEN <<Change(TxtBlockedIn, <<Str(Len(currentVideo.blockedRegions))>>, " regions")>>
  ELSE <<>>

\* A diff whose region rule reports every blocked region of the current
\* state, new or not.
DiffWithoutFilter(currentVideo, previousVideo) ==
  IF previousVideo = Null
  THEN DiffAsFirstSync(currentVideo, previousVideo)
  ELSE IF Len(currentVideo.blockedRegions) > 0
       THEN <<Change(TxtNewBlocks, currentVideo.blockedRegions, "")>>
       ELSE <<>>

\* A video state is [privacyStatus, uploadStatus, blockedRegions];
\* previousVideo is Null (undefined) or Some(state).
detectPotentialIssues(currentVideo, previousVideo) ==
  IF previousVideo = Null
  THEN IF Len(currentVideo.blockedRegions) > 0
       THEN <<Change(TxtBlockedIn, <<Str(Len(currentVideo.blockedRegions))>>, " regions")>>
       ELSE <<>>
  ELSE LET prev == previousVideo[1]
           newBlockedRegions ==
             SelectSeq(currentVideo.blockedRegions,
                       LAMBDA r : r \notin Range(prev.blockedRegions))
           region == IF Len(newBlockedRegions) > 0
                     THEN <<Change(TxtNewBlocks, newBlockedRegions, "")>> ELSE <<>>
           upload == IF prev.uploadStatus = "processed"
                        /\ currentVideo.uploadStatus # "processed"
                     THEN <<Change(TxtUpload, <<currentVideo.uploadStatus>>, "")>> ELSE <<>>
           privacy == IF prev.privacyStatus = "public"
                         /\ currentVideo.privacyStatus # "public"
                      THEN <<Change(TxtPrivacy, <<currentVideo.privacyStatus>>, "")>> ELSE <<>>
       IN region \o upload \o privacy

\* change.includes('region block') || change.includes('blocked in')
MentionsRegionBlock(change) == change.head \in {TxtNewBlocks, TxtBlockedIn}

\* A classification that only tests for 'blocked in'.
EventTypeBlockedInOnly(change) ==
  IF change.head = TxtBlockedIn THEN "REGION_RESTRICTION" ELSE "MONETIZATION_CHANGE"

EventTypeOf(change) ==
  IF MentionsRegionBlock(change) THEN "REGION_RESTRICTION" ELSE "MONETIZATION_CHANGE"

\* The states the platform may report for the channel's video.
PlatformVideoStates ==
  [privacyStatus : {"public"}, uploadStatus : {"processed"},
   blockedRegions : {<<>>, <<"DE", "FR">>}]
NoState == [privacyStatus |-> "", uploadStatus |-> "", blockedRegions |-> <<>>]
NoVideo == [exists |-> FALSE, privacyStatus |-> "", uploadStatus |-> "",
            blockedRegions |-> <<>>, previousState |-> Null]
Columns(row) ==
  [privacyStatus |-> row.privacyStatus, uploadStatus |-> row.uploadStatus,
   blockedRegions |-> row.blockedRegions]

\* claimData of processContentIdClaim
ClaimData(claim, videoId) ==
  LET matchDetails == parseMatchInfo(claim.matchInfo)
      policyAction == parsePolicyAction(claim.pol[1], claim.pol[2])
  IN [videoId |-> videoId,
      youtubeClaimId |-> claim.id,
      type |-> IF policyAction = "block" THEN "STRIKE" ELSE "CLAIM",
      status |-> mapStatus(claim.status),
      policyAction |-> policyAction,
      matchStartMs |-> IF matchDetails = Null THEN Null
                       ELSE Some(matchDetails[1].matchStartMs),
      matchEndMs |-> IF matchDetails = Null THEN Null
                     ELSE Some(matchDetails[1].matchEndMs),
      detectedAt |-> IF claim.timeCreated # Null THEN claim.timeCreated ELSE Some("now"),
      claimantId |-> Null,
      description |-> "",
      rawData |-> [claim |-> Some(claim), changeDescription |-> Null]]

VARIABLES
  channel,        \* the Channel row
  videos,         \* the Video rows, by video id
  events,         \* the CopyrightEvent rows
  nextEventId,    \* the store's id sequence for CopyrightEvent
  notifications,  \* jobs added to the notification queue
  cs,             \* claim-sync jobs: queue state and the handler's locals
  sy,             \* channel-sync jobs
  cd,             \* claim-detect jobs
  faults,         \* platform/store/queue faults the environment may still inject
  channelStatus,  \* the status column of the Channel table, by channel id
  sched,          \* the scheduler: its position, tick number and loop locals
  channelSyncQueue,  \* the jobs the scheduler has added to the channel-sync queue
  nt,             \* notification jobs a worker has taken: queue state and position
  inbox,          \* the Notification rows
  call,           \* a call of a pure function: its arguments and its result
  claimant,       \* the Claimant rows
  claimantStatistics,  \* the ClaimantStatistics rows
  at              \* createCopyrightEvent calls in progress

vars == <<channel, videos, events, nextEventId, notifications, cs, sy, cd, faults,
          channelStatus, sched, channelSyncQueue, nt, inbox,
          call, claimant, claimantStatistics, at>>

\* No pure-function call is being followed.
NoCall == [fn |-> "", args |-> <<>>, result |-> Null, runs |-> 0]

\* ------------------------------------------------------------- store
EventByClaimId(cid) == {e \in events : e.youtubeClaimId = cid}

\* A store without the unique key on youtubeClaimId.
NoUniqueKey(data) == FALSE

\* CopyrightEvent.youtubeClaimId is a unique key of the store: a create that
\* would give two rows the same claim identifier is rejected.
UniqueViolation(data) ==
  data.youtubeClaimId # 0 /\ EventByClaimId(data.youtubeClaimId) # {}

NewEvent(data) == [id |-> nextEventId] @@ data

CanFail == faults > 0

\* ------------------------------------------------------------- claim-sync
CsIdle ==
  [st |-> "none", attemptsMade |-> 0, pc |-> "idle", owner |-> Null,
   map |-> {}, page |-> 0, n |-> 0, i |-> 0, hasNext |-> FALSE,
   claim |-> NoClaim, existing |-> 0, result |-> "none",
   newClaims |-> 0, updatedClaims |-> 0, created |-> {}, err |-> ""]

\* The attempt is over: the handler's locals are gone.
CsEnd(job, st) == [CsIdle EXCEPT !.st = st, !.attemptsMade = job.attemptsMade]

\* POST /:channelId/sync-claims
EnqueueClaimSync(j) ==
  /\ cs[j].st = "none"
  /\ \A k \in ClaimSyncJobIds : k < j => cs[k].st # "none"
  /\ channel.status = "ACTIVE"
  /\ cs' = [cs EXCEPT ![j].st = "queued"]
  /\ UNCHANGED <<channel, videos, events, nextEventId, notifications, faults, sy, cd>>
  /\ UNCHANGED <<channelStatus, sched, channelSyncQueue, nt, inbox,
               call, claimant, claimantStatistics, at>>

\* A worker takes the job; the handler runs up to its first platform call.
\* A start that goes on whatever the channel's status.
ClaimSyncStartAnyStatus(j) ==
  /\ cs[j].st = "queued"
  /\ cs' = [cs EXCEPT ![j] =
            [CsIdle EXCEPT !.st = "active",
               !.attemptsMade = cs[j].attemptsMade,
               !.owner = channel.contentOwnerId,
               !.map = {v \in DOMAIN videos : videos[v].exists},
               !.page = 1,
               !.pc = IF channel.contentOwnerId = Null THEN "owner" ELSE "search"]]
  /\ UNCHANGED <<channel, videos, events, nextEventId, notifications, faults, sy, cd>>
  /\ UNCHANGED <<channelStatus, sched, channelSyncQueue, nt, inbox,
               call, claimant, claimantStatistics, at>>

\* The channel lookup and the two early returns: a row that is gone (status
\* Deleted) or not ACTIVE ends the job; else the handler goes on.
ClaimSyncStart(j) ==
  /\ cs[j].st = "queued"
  /\ IF channel.status # "ACTIVE"
     THEN cs' = [cs EXCEPT ![j] = CsEnd(cs[j], "completed")]
     ELSE cs' = [cs EXCEPT ![j] =
            [CsIdle EXCEPT !.st = "active",
               !.attemptsMade = cs[j].attemptsMade,
               !.owner = channel.contentOwnerId,
               !.map = {v \in DOMAIN videos : videos[v].exists},
               !.page = 1,
               !.pc = IF channel.contentOwnerId = Null THEN "owner" ELSE "search"]]
  /\ UNCHANGED <<channel, videos, events, nextEventId, notifications, faults, sy, cd>>
  /\ UNCHANGED <<channelStatus, sched, channelSyncQueue, nt, inbox,
               call, claimant, claimantStatistics, at>>

\* The attempt throws: the catch block takes over.
CsThrow(j, msg) ==
  [cs[j] EXCEPT !.pc = "catch", !.err = msg]

\* getContentOwner, then the channel update that records its answer.
ClaimSyncGetOwner(j) ==
  /\ cs[j].st = "active" /\ cs[j].pc = "owner"
  /\ \/ /\ CanFail
        /\ \E msg \in PlatformErrors : cs' = [cs EXCEPT ![j] = CsThrow(j, msg)]
        /\ faults' = faults - 1
        /\ UNCHANGED channel
     \/ /\ channel' = [channel EXCEPT !.lastSyncError = Some(MsgNoContentId)]
        /\ cs' = [cs EXCEPT ![j] = CsEnd(cs[j], "completed")]
        /\ UNCHANGED faults
     \/ /\ channel' = [channel EXCEPT !.contentOwnerId = Some("co1")]
        /\ cs' = [cs EXCEPT ![j].pc = "search", ![j].owner = Some("co1")]
        /\ UNCHANGED faults
  /\ UNCHANGED <<videos, events, nextEventId, notifications, sy, cd>>
  /\ UNCHANGED <<channelStatus, sched, channelSyncQueue, nt, inbox,
               call, claimant, claimantStatistics, at>>

\* searchClaims: one page of at most MaxPageLen claims and maybe a next page.
ClaimSyncSearch(j) ==
  /\ cs[j].st = "active" /\ cs[j].pc = "search"
  /\ \/ /\ CanFail
        /\ \E msg \in PlatformErrors : cs' = [cs EXCEPT ![j] = CsThrow(j, msg)]
        /\ faults' = faults - 1
     \/ /\ \E n \in 0..MaxPageLen, more \in BOOLEAN :
             /\ more => cs[j].page < MaxPages
             /\ cs' = [cs EXCEPT ![j].n = n, ![j].hasNext = more, ![j].i = 1,
                         ![j].pc = IF n > 0 THEN "item"
                                   ELSE IF more THEN "search" ELSE "finish",
                         ![j].page = IF n = 0 /\ more THEN @ + 1 ELSE @]
        /\ UNCHANGED faults
  /\ UNCHANGED <<channel, videos, events, nextEventId, notifications, sy, cd>>
  /\ UNCHANGED <<channelStatus, sched, channelSyncQueue, nt, inbox,
               call, claimant, claimantStatistics, at>>

\* The loop moves on after an item: next item, next page, or the end.
CsAdvance(job) ==
  IF job.i < job.n THEN [job EXCEPT !.i = @ + 1, !.pc = "item"]
  ELSE IF job.hasNext THEN [job EXCEPT !.page = @ + 1, !.pc = "search"]
  ELSE [job EXCEPT !.pc = "finish"]

\* A loop without the video-id map check.
AnyVideoInMap(claim, map) == TRUE

\* const videoInfo = videoIdMap.get(claim.videoId); if (!videoInfo) continue;
InVideoIdMap(claim, map) == claim.videoId \in map

\* A comparison that also looks at the match timecodes.
HasChangesWithTimecodes(existingEvent, claimData) ==
  \/ existingEvent.status # claimData.status
  \/ existingEvent.policyAction # claimData.policyAction
  \/ existingEvent.matchStartMs # claimData.matchStartMs
  \/ existingEvent.matchEndMs # claimData.matchEndMs

\* existingEvent.status !== claimData.status || existingEvent.policyAction !== ...
HasChanges(existingEvent, claimData) ==
  \/ existingEvent.status # claimData.status
  \/ existingEvent.policyAction # claimData.policyAction

\* One item of the page: the video-id map check, then findUnique by claim id.
ClaimSyncItemOf(j, claims) ==
  /\ cs[j].st = "active" /\ cs[j].pc = "item"
  /\ \E claim \in claims :
       IF ~InVideoIdMap(claim, cs[j].map)
       THEN /\ cs' = [cs EXCEPT ![j] =
                        CsAdvance([cs[j] EXCEPT !.result = "skipped", !.claim = claim])]
            /\ UNCHANGED faults
       ELSE \/ /\ CanFail
               /\ cs' = [cs EXCEPT ![j] = CsThrow(j, ErrPersistence)]
               /\ faults' = faults - 1
            \/ /\ UNCHANGED faults
               /\ LET found == EventByClaimId(claim.id)
                      data == ClaimData(claim, claim.videoId)
                  IN IF found = {}
                     THEN cs' = [cs EXCEPT ![j].claim = claim, ![j].existing = 0,
                                           ![j].pc = "create"]
                     ELSE LET e == CHOOSE x \in found : TRUE
                          IN IF HasChanges(e, data)
                             THEN cs' = [cs EXCEPT ![j].claim = claim,
                                           ![j].existing = e.id, ![j].pc = "update"]
                             ELSE cs' = [cs EXCEPT ![j] =
                                           CsAdvance([cs[j] EXCEPT !.result = "unchanged",
                                                                   !.claim = claim])]
  /\ UNCHANGED <<channel, videos, events, nextEventId, notifications, sy, cd>>
  /\ UNCHANGED <<channelStatus, sched, channelSyncQueue, nt, inbox,
               call, claimant, claimantStatistics, at>>

ClaimSyncItem(j) == ClaimSyncItemOf(j, ClaimInputs)

\* An update that refreshes rawData and leaves status and policy action.
UpdatedRawDataOnly(e, data) == [e EXCEPT !.rawData = data.rawData]

\* prisma.copyrightEvent.update: status, policyAction and rawData only.
UpdatedEvent(e, data) ==
  [e EXCEPT !.status = data.status, !.policyAction = data.policyAction,
            !.rawData = data.rawData]

ClaimSyncUpdate(j) ==
  /\ cs[j].st = "active" /\ cs[j].pc = "update"
  /\ \/ /\ CanFail
        /\ cs' = [cs EXCEPT ![j] = CsThrow(j, ErrPersistence)]
        /\ faults' = faults - 1
        /\ UNCHANGED events
     \/ /\ UNCHANGED faults
        /\ LET data == ClaimData(cs[j].claim, cs[j].claim.videoId)
           IN events' = {IF e.id = cs[j].existing THEN UpdatedEvent(e, data) ELSE e :
                           e \in events}
        /\ cs' = [cs EXCEPT ![j] =
                    CsAdvance([cs[j] EXCEPT !.result = "updated",
                                            !.updatedClaims = @ + 1])]
  /\ UNCHANGED <<channel, videos, nextEventId, notifications, sy, cd>>
  /\ UNCHANGED <<channelStatus, sched, channelSyncQueue, nt, inbox,
               call, claimant, claimantStatistics, at>>

ClaimSyncCreate(j) ==
  /\ cs[j].st = "active" /\ cs[j].pc = "create"
  /\ LET data == ClaimData(cs[j].claim, cs[j].claim.videoId)
     IN \/ /\ CanFail
           /\ cs' = [cs EXCEPT ![j] = CsThrow(j, ErrPersistence)]
           /\ faults' = faults - 1
           /\ UNCHANGED <<events, nextEventId>>
        \/ /\ UniqueViolation(data)
           /\ cs' = [cs EXCEPT ![j] = CsThrow(j, ErrUnique)]
           /\ UNCHANGED <<events, nextEventId, faults>>
        \/ /\ ~UniqueViolation(data)
           /\ events' = events \cup {NewEvent(data)}
           /\ nextEventId' = nextEventId + 1
           /\ cs' = [cs EXCEPT ![j] =
                       CsAdvance([cs[j] EXCEPT !.result = "new",
                                               !.newClaims = @ + 1,
                                               !.created = @ \cup {nextEventId}])]
           /\ UNCHANGED faults
  /\ UNCHANGED <<channel, videos, notifications, sy, cd>>
  /\ UNCHANGED <<channelStatus, sched, channelSyncQueue, nt, inbox,
               call, claimant, claimantStatistics, at>>

\* After the last page: lastClaimSyncAt := now, lastSyncError := null.
ClaimSyncFinish(j) ==
  /\ cs[j].st = "active" /\ cs[j].pc = "finish"
  /\ \/ /\ CanFail
        /\ cs' = [cs EXCEPT ![j] = CsThrow(j, ErrPersistence)]
        /\ faults' = faults - 1
        /\ UNCHANGED channel
     \/ /\ channel' = [channel EXCEPT !.lastClaimSyncAt = Some(j), !.lastSyncError = Null]
        /\ cs' = IF cs[j].newClaims > 0
                 THEN [cs EXCEPT ![j].pc = "notify"]
                 ELSE [cs EXCEPT ![j] = CsEnd(cs[j], "completed")]
        /\ UNCHANGED faults
  /\ UNCHANGED <<videos, events, nextEventId, notifications, sy, cd>>
  /\ UNCHANGED <<channelStatus, sched, channelSyncQueue, nt, inbox,
               call, claimant, claimantStatistics, at>>

\* if (newClaims > 0) notificationQueue.add(NEW_CLAIM)
ClaimSyncNotify(j) ==
  /\ cs[j].st = "active" /\ cs[j].pc = "notify"
  /\ \/ /\ CanFail
        /\ cs' = [cs EXCEPT ![j] = CsThrow(j, ErrQueue)]
        /\ faults' = faults - 1
        /\ UNCHANGED notifications
     \/ /\ notifications' = notifications \cup
             {[type |-> "NEW_CLAIM", from |-> <<"claim-sync", j, cs[j].attemptsMade>>,
               covers |-> cs[j].created, count |-> cs[j].newClaims]}
        /\ cs' = [cs EXCEPT ![j] = CsEnd(cs[j], "completed")]
        /\ UNCHANGED faults
  /\ UNCHANGED <<channel, videos, events, nextEventId, sy, cd>>
  /\ UNCHANGED <<channelStatus, sched, channelSyncQueue, nt, inbox,
               call, claimant, claimantStatistics, at>>

\* catch: record the error on the channel, then rethrow; the queue retries
\* the job while attempts remain.
ClaimSyncCatch(j) ==
  /\ cs[j].st = "active" /\ cs[j].pc = "catch"
  /\ channel' = [channel EXCEPT !.lastSyncError =
        IF IsPermissionError(cs[j].err) THEN Some(MsgAccessDenied) ELSE Some(cs[j].err)]
  /\ cs' = [cs EXCEPT ![j] =
              CsEnd([cs[j] EXCEPT !.attemptsMade = @ + 1],
                    IF cs[j].attemptsMade + 1 < ClaimSyncAttempts
                    THEN "queued" ELSE "failed")]
  /\ UNCHANGED <<videos, events, nextEventId, notifications, faults, sy, cd>>
  /\ UNCHANGED <<channelStatus, sched, channelSyncQueue, nt, inbox,
               call, claimant, claimantStatistics, at>>

\* ------------------------------------------------------------- channel-sync
SyIdle ==
  [st |-> "none", attemptsMade |-> 0, pc |-> "idle", page |-> 0, n |-> 0,
   i |-> 0, hasNext |-> FALSE, info |-> NoState, existing |-> Null, err |-> "",
   refreshToken |-> Null, tokens |-> Null, accessToken |-> Null,
   vid |-> "", touched |-> {}, fanned |-> {}]

SyEnd(job, st) == [SyIdle EXCEPT !.st = st, !.attemptsMade = job.attemptsMade]

CdIdle ==
  [st |-> "none", attemptsMade |-> 0, pc |-> "idle", video |-> "",
   current |-> NoState, changes |-> <<>>, ci |-> 0, created |-> 0]

CdEnd(job, st) ==
  [CdIdle EXCEPT !.st = st, !.attemptsMade = job.attemptsMade, !.video = job.video]

\* scheduleAllChannelSyncs / scheduleSingleChannelSync / POST /:channelId/sync
EnqueueChannelSync(j) ==
  /\ sy[j].st = "none"
  /\ \A k \in SyncJobIds : k < j => sy[k].st # "none"
  /\ channel.status = "ACTIVE"
  /\ sy' = [sy EXCEPT ![j].st = "queued"]
  /\ UNCHANGED <<channel, videos, events, nextEventId, notifications, cs, cd, faults>>
  /\ UNCHANGED <<channelStatus, sched, channelSyncQueue, nt, inbox,
               call, claimant, claimantStatistics, at>>

SyThrow(j, msg) == [sy[j] EXCEPT !.pc = "catch", !.err = msg]

\* The attempt throws outside the handler's try block.
SyFail(job) ==
  SyEnd([job EXCEPT !.attemptsMade = @ + 1],
        IF job.attemptsMade + 1 < DefaultAttempts THEN "queued" ELSE "failed")

\* The channel lookup and the expiry test: a channel that is not ACTIVE ends
\* the job; an expired credential sends it to the refresh, an unexpired one
\* is decrypted and used.
ChannelSyncStart(j) ==
  /\ sy[j].st = "queued"
  /\ \/ /\ CanFail
        /\ sy' = [sy EXCEPT ![j] = SyFail(sy[j])]
        /\ faults' = faults - 1
     \/ /\ channel.status # "ACTIVE"
        /\ sy' = [sy EXCEPT ![j] = SyEnd(sy[j], "completed")]
        /\ UNCHANGED faults
     \/ /\ channel.status = "ACTIVE"
        /\ sy' = [sy EXCEPT ![j] =
             [SyIdle EXCEPT !.st = "active", !.attemptsMade = sy[j].attemptsMade,
                !.pc = IF channel.tokenExpired THEN "refresh" ELSE "info",
                !.refreshToken = IF channel.tokenExpired
                                 THEN Some(channel.refreshToken) ELSE Null,
                !.accessToken = IF channel.tokenExpired
                                THEN Null ELSE Some(channel.accessToken)]]
        /\ UNCHANGED faults
  /\ UNCHANGED <<channel, videos, events, nextEventId, notifications, cs, cd>>
  /\ UNCHANGED <<channelStatus, sched, channelSyncQueue, nt, inbox,
               call, claimant, claimantStatistics, at>>

\* refreshAccessToken: the new access credential, and the new refresh
\* credential or, when the platform sends none, the one passed in.
ChannelSyncRefresh(j) ==
  /\ sy[j].st = "active" /\ sy[j].pc = "refresh"
  /\ \/ /\ CanFail
        /\ \E msg \in RefreshErrors : sy' = [sy EXCEPT ![j] = SyThrow(j, msg)]
        /\ faults' = faults - 1
     \/ /\ \E rotated \in BOOLEAN :
             sy' = [sy EXCEPT ![j].pc = "persist",
                      ![j].tokens =
                        Some([accessToken |-> IssuedToken(j, sy[j].attemptsMade),
                              refreshToken |-> IF rotated
                                               THEN IssuedToken(j, sy[j].attemptsMade)
                                               ELSE sy[j].refreshToken[1]])]
        /\ UNCHANGED faults
  /\ UNCHANGED <<channel, videos, events, nextEventId, notifications, cs, cd>>
  /\ UNCHANGED <<channelStatus, sched, channelSyncQueue, nt, inbox,
               call, claimant, claimantStatistics, at>>

\* A job that goes on with the credential it decrypted from the row it read.
StaleAccessToken(tokens, row) == row.accessToken

\* accessToken = tokens.accessToken
RefreshedAccessToken(tokens, row) == tokens.accessToken

\* prisma.channel.update of the refreshed pair and its expiry.
ChannelSyncPersist(j) ==
  /\ sy[j].st = "active" /\ sy[j].pc = "persist"
  /\ \/ /\ CanFail
        /\ sy' = [sy EXCEPT ![j] = SyThrow(j, ErrPersistence)]
        /\ faults' = faults - 1
        /\ UNCHANGED channel
     \/ /\ channel' = [channel EXCEPT !.accessToken = sy[j].tokens[1].accessToken,
                                      !.refreshToken = sy[j].tokens[1].refreshToken,
                                      !.tokenExpired = FALSE]
        /\ sy' = [sy EXCEPT ![j].pc = "info",
                    ![j].accessToken = Some(RefreshedAccessToken(sy[j].tokens[1], channel))]
        /\ UNCHANGED faults
  /\ UNCHANGED <<videos, events, nextEventId, notifications, cs, cd>>
  /\ UNCHANGED <<channelStatus, sched, channelSyncQueue, nt, inbox,
               call, claimant, claimantStatistics, at>>

\* getChannelInfo(accessToken) and the update of the channel's display
\* metadata.
ChannelSyncInfo(j) ==
  /\ sy[j].st = "active" /\ sy[j].pc = "info"
  /\ \/ /\ CanFail
        /\ \E msg \in ChannelSyncErrors : sy' = [sy EXCEPT ![j] = SyThrow(j, msg)]
        /\ faults' = faults - 1
     \/ /\ sy' = [sy EXCEPT ![j].pc = "list", ![j].page = 1]
        /\ UNCHANGED faults
  /\ UNCHANGED <<channel, videos, events, nextEventId, notifications, cs, cd>>
  /\ UNCHANGED <<channelStatus, sched, channelSyncQueue, nt, inbox,
               call, claimant, claimantStatistics, at>>

\* The access credential expires: tokenExpiresAt <= now from here on.
TokenExpires ==
  /\ ~channel.tokenExpired
  /\ channel' = [channel EXCEPT !.tokenExpired = TRUE]
  /\ UNCHANGED <<videos, events, nextEventId, notifications, cs, sy, cd, faults>>
  /\ UNCHANGED <<channelStatus, sched, channelSyncQueue, nt, inbox,
               call, claimant, claimantStatistics, at>>

\* The videos the platform has not yet listed to this attempt: a listing
\* names each video of the channel once.
Unlisted(job) == DOMAIN videos \ job.touched

\* The listing of a channel has at most one page per video of the channel,
\* and at most MaxVideoPages pages.
PageLimit ==
  IF Cardinality(DOMAIN videos) < MaxVideoPages
  THEN Cardinality(DOMAIN videos) ELSE MaxVideoPages

SyAdvance(job) ==
  IF job.i < job.n THEN [job EXCEPT !.i = @ + 1, !.pc = "item"]
  ELSE IF job.hasNext THEN [job EXCEPT !.page = @ + 1, !.pc = "list"]
  ELSE [job EXCEPT !.pc = "finish"]

\* listVideos: one page of the channel's videos and maybe a next page.
ChannelSyncList(j) ==
  /\ sy[j].st = "active" /\ sy[j].pc = "list"
  /\ \/ /\ CanFail
        /\ \E msg \in PlatformErrors : sy' = [sy EXCEPT ![j] = SyThrow(j, msg)]
        /\ faults' = faults - 1
     \/ /\ \E n \in 0..1, more \in BOOLEAN :
             /\ n <= Cardinality(Unlisted(sy[j]))
             /\ more => sy[j].page < PageLimit
             /\ sy' = [sy EXCEPT ![j].n = n, ![j].hasNext = more, ![j].i = 1,
                         ![j].pc = IF n > 0 THEN "item"
                                   ELSE IF more THEN "list" ELSE "finish",
                         ![j].page = IF n = 0 /\ more THEN @ + 1 ELSE @]
        /\ UNCHANGED faults
  /\ UNCHANGED <<channel, videos, events, nextEventId, notifications, cs, cd>>
  /\ UNCHANGED <<channelStatus, sched, channelSyncQueue, nt, inbox,
               call, claimant, claimantStatistics, at>>

\* prisma.video.findUnique for one video of the page.
ChannelSyncItem(j) ==
  /\ sy[j].st = "active" /\ sy[j].pc = "item"
  /\ \/ /\ CanFail
        /\ sy' = [sy EXCEPT ![j] = SyThrow(j, ErrPersistence)]
        /\ faults' = faults - 1
     \/ /\ \E vid \in Unlisted(sy[j]), videoInfo \in PlatformVideoStates :
             sy' = [sy EXCEPT ![j].info = videoInfo, ![j].pc = "write",
                      ![j].vid = vid,
                      ![j].existing = IF videos[vid].exists
                                      THEN Some(videos[vid]) ELSE Null]
        /\ UNCHANGED faults
  /\ UNCHANGED <<channel, videos, events, nextEventId, notifications, cs, cd>>
  /\ UNCHANGED <<channelStatus, sched, channelSyncQueue, nt, inbox,
               call, claimant, claimantStatistics, at>>

\* previousState: existingVideo.previousState || { ...existingVideo's columns }
KeptPreviousState(existingVideo) ==
  IF existingVideo.previousState # Null THEN existingVideo.previousState
  ELSE Some(Columns(existingVideo))

\* prisma.video.update of an existing video
UpdatedVideo(existingVideo, videoInfo) ==
  [exists |-> TRUE,
   privacyStatus |-> videoInfo.privacyStatus,
   uploadStatus |-> videoInfo.uploadStatus,
   blockedRegions |-> videoInfo.blockedRegions,
   previousState |-> KeptPreviousState(existingVideo)]

\* prisma.video.create
CreatedVideo(videoInfo) ==
  [exists |-> TRUE,
   privacyStatus |-> videoInfo.privacyStatus,
   uploadStatus |-> videoInfo.uploadStatus,
   blockedRegions |-> videoInfo.blockedRegions,
   previousState |-> Null]

ChannelSyncWrite(j) ==
  /\ sy[j].st = "active" /\ sy[j].pc = "write"
  /\ \/ /\ CanFail
        /\ sy' = [sy EXCEPT ![j] = SyThrow(j, ErrPersistence)]
        /\ faults' = faults - 1
        /\ UNCHANGED videos
     \/ /\ sy[j].existing # Null
        /\ videos' = [videos EXCEPT ![sy[j].vid] =
                        UpdatedVideo(sy[j].existing[1], sy[j].info)]
        /\ sy' = [sy EXCEPT ![j].pc = "enqueue", ![j].touched = @ \cup {sy[j].vid}]
        /\ UNCHANGED faults
     \/ /\ sy[j].existing = Null /\ videos[sy[j].vid].exists
        /\ sy' = [sy EXCEPT ![j] = SyThrow(j, ErrUniqueVideo)]
        /\ UNCHANGED <<videos, faults>>
     \/ /\ sy[j].existing = Null /\ ~videos[sy[j].vid].exists
        /\ videos' = [videos EXCEPT ![sy[j].vid] = CreatedVideo(sy[j].info)]
        /\ sy' = [sy EXCEPT ![j].pc = "enqueue", ![j].touched = @ \cup {sy[j].vid}]
        /\ UNCHANGED faults
  /\ UNCHANGED <<channel, events, nextEventId, notifications, cs, cd>>
  /\ UNCHANGED <<channelStatus, sched, channelSyncQueue, nt, inbox,
               call, claimant, claimantStatistics, at>>

FreeDetectSlots == {k \in DetectJobIds : cd[k].st = "none"}

\* A fan-out that names the channel's first video whatever was written.
FirstVideoId(job) == TrackedVideo

\* { videoId: existingVideo.id } / { videoId: newVideo.id }
DetectJobVideoId(job) == job.vid

\* claimDetectQueue.add for the video just written
ChannelSyncEnqueue(j) ==
  /\ sy[j].st = "active" /\ sy[j].pc = "enqueue"
  /\ \/ /\ CanFail
        /\ sy' = [sy EXCEPT ![j] = SyThrow(j, ErrQueue)]
        /\ faults' = faults - 1
        /\ UNCHANGED cd
     \/ /\ FreeDetectSlots # {}
        /\ LET k == CHOOSE x \in FreeDetectSlots : \A y \in FreeDetectSlots : x <= y
           IN cd' = [cd EXCEPT ![k] = [CdIdle EXCEPT !.st = "queued",
                                                   !.video = DetectJobVideoId(sy[j])]]
        /\ sy' = [sy EXCEPT ![j] =
                    SyAdvance([sy[j] EXCEPT !.info = NoState, !.existing = Null,
                                 !.vid = "",
                                 !.fanned = @ \cup {DetectJobVideoId(sy[j])}])]
        /\ UNCHANGED faults
  /\ UNCHANGED <<channel, videos, events, nextEventId, notifications, cs>>
  /\ UNCHANGED <<channelStatus, sched, channelSyncQueue, nt, inbox,
               call, claimant, claimantStatistics, at>>

\* After the last page: lastSyncAt := now, lastSyncError := null.
ChannelSyncFinish(j) ==
  /\ sy[j].st = "active" /\ sy[j].pc = "finish"
  /\ \/ /\ CanFail
        /\ sy' = [sy EXCEPT ![j] = SyThrow(j, ErrPersistence)]
        /\ faults' = faults - 1
        /\ UNCHANGED channel
     \/ /\ channel' = [channel EXCEPT !.lastSyncAt = Some("now"), !.lastSyncError = Null]
        /\ sy' = [sy EXCEPT ![j] = SyEnd(sy[j], "completed")]
        /\ UNCHANGED faults
  /\ UNCHANGED <<videos, events, nextEventId, notifications, cs, cd>>
  /\ UNCHANGED <<channelStatus, sched, channelSyncQueue, nt, inbox,
               call, claimant, claimantStatistics, at>>

\* error.message.includes('token')
IsTokenError(msg) == msg \in {ErrToken}

\* catch: the channel update, the SYNC_ERROR notification, then rethrow.
\* channel.status is the status the job read at its start, which was ACTIVE.
ChannelSyncCatch(j) ==
  /\ sy[j].st = "active" /\ sy[j].pc = "catch"
  /\ channel' = [channel EXCEPT !.lastSyncError = Some(sy[j].err),
                   !.status = IF IsTokenError(sy[j].err) THEN "ERROR" ELSE "ACTIVE"]
  /\ notifications' = notifications \cup
       {[type |-> "SYNC_ERROR", from |-> <<"channel-sync", j, sy[j].attemptsMade>>,
         covers |-> {}, count |-> 0]}
  /\ sy' = [sy EXCEPT ![j] =
              SyEnd([sy[j] EXCEPT !.attemptsMade = @ + 1],
                    IF sy[j].attemptsMade + 1 < DefaultAttempts
                    THEN "queued" ELSE "failed")]
  /\ UNCHANGED <<videos, events, nextEventId, cs, cd, faults>>
  /\ UNCHANGED <<channelStatus, sched, channelSyncQueue, nt, inbox,
               call, claimant, claimantStatistics, at>>

\* ------------------------------------------------------------- claim-detect
\* The attempt throws: the catch block logs and rethrows.
CdThrow(job) ==
  CdEnd([job EXCEPT !.attemptsMade = @ + 1],
        IF job.attemptsMade + 1 < DefaultAttempts THEN "queued" ELSE "failed")

\* The previous state the diff runs against: the stored snapshot, else the
\* stored columns.
BuiltPreviousState(video) ==
  IF video.previousState # Null THEN video.previousState ELSE Some(Columns(video))

\* The handler up to its first write: the video lookup, getVideoDetails and
\* the diff.
ClaimDetectStart(k) ==
  /\ cd[k].st = "queued"
  /\ LET video == videos[cd[k].video]
     IN \/ /\ ~video.exists
           /\ cd' = [cd EXCEPT ![k] = CdEnd(cd[k], "completed")]
           /\ UNCHANGED faults
        \/ /\ video.exists /\ CanFail
           /\ cd' = [cd EXCEPT ![k] = CdThrow(cd[k])]
           /\ faults' = faults - 1
        \/ /\ video.exists
           /\ cd' = [cd EXCEPT ![k] =
                IF video.privacyStatus = "public"
                THEN [cd[k] EXCEPT !.st = "active", !.pc = "gone"]
                ELSE CdEnd(cd[k], "completed")]
           /\ UNCHANGED faults
        \/ /\ video.exists
           /\ \E currentVideo \in PlatformVideoStates :
                LET changes == detectPotentialIssues(currentVideo, BuiltPreviousState(video))
                IN cd' = [cd EXCEPT ![k] =
                     [cd[k] EXCEPT !.st = "active", !.current = currentVideo,
                        !.changes = changes, !.ci = 1,
                        !.pc = IF Len(changes) > 0 THEN "find" ELSE "save"]]
           /\ UNCHANGED faults
  /\ UNCHANGED <<channel, videos, events, nextEventId, notifications, cs, sy>>
  /\ UNCHANGED <<channelStatus, sched, channelSyncQueue, nt, inbox,
               call, claimant, claimantStatistics, at>>

\* createCopyrightEvent(videoId, type, description, null)
DetectedEvent(videoId, type, description) ==
  [videoId |-> videoId, youtubeClaimId |-> 0, type |-> type, status |-> "ACTIVE",
   policyAction |-> "", matchStartMs |-> Null, matchEndMs |-> Null,
   detectedAt |-> Some("now"), claimantId |-> Null, description |-> description,
   rawData |-> [claim |-> Null, changeDescription |-> Some(description)]]

\* The video is gone from the platform: the synthetic event, without a lookup.
ClaimDetectGone(k) ==
  /\ cd[k].st = "active" /\ cd[k].pc = "gone"
  /\ \/ /\ CanFail
        /\ cd' = [cd EXCEPT ![k] = CdThrow(cd[k])]
        /\ faults' = faults - 1
        /\ UNCHANGED <<events, nextEventId>>
     \/ /\ events' = events \cup
             {NewEvent(DetectedEvent(cd[k].video, "MONETIZATION_CHANGE", TxtGone))}
        /\ nextEventId' = nextEventId + 1
        /\ cd' = [cd EXCEPT ![k] = CdEnd(cd[k], "completed")]
        /\ UNCHANGED faults
  /\ UNCHANGED <<channel, videos, notifications, cs, sy>>
  /\ UNCHANGED <<channelStatus, sched, channelSyncQueue, nt, inbox,
               call, claimant, claimantStatistics, at>>

CdAdvance(job) ==
  IF job.ci < Len(job.changes) THEN [job EXCEPT !.ci = @ + 1, !.pc = "find"]
  ELSE [job EXCEPT !.pc = "save"]

\* A lookup that does not ask for status ACTIVE.
ExistingEventAnyStatus(videoId, eventType, change) ==
  {e \in events : /\ e.videoId = videoId
                  /\ e.type = eventType
                  /\ e.rawData.changeDescription = Some(change)}

\* findFirst({ videoId, type, status: 'ACTIVE', rawData.changeDescription = change })
ExistingEvent(videoId, eventType, change) ==
  {e \in events : /\ e.videoId = videoId
                  /\ e.type = eventType
                  /\ e.status = "ACTIVE"
                  /\ e.rawData.changeDescription = Some(change)}

ClaimDetectFind(k) ==
  /\ cd[k].st = "active" /\ cd[k].pc = "find"
  /\ \/ /\ CanFail
        /\ cd' = [cd EXCEPT ![k] = CdThrow(cd[k])]
        /\ faults' = faults - 1
     \/ /\ LET change == cd[k].changes[cd[k].ci]
           IN cd' = [cd EXCEPT ![k] =
                IF ExistingEvent(cd[k].video, EventTypeOf(change), change.text) # {}
                THEN CdAdvance(cd[k])
                ELSE [cd[k] EXCEPT !.pc = "create"]]
        /\ UNCHANGED faults
  /\ UNCHANGED <<channel, videos, events, nextEventId, notifications, cs, sy>>
  /\ UNCHANGED <<channelStatus, sched, channelSyncQueue, nt, inbox,
               call, claimant, claimantStatistics, at>>

ClaimDetectCreate(k) ==
  /\ cd[k].st = "active" /\ cd[k].pc = "create"
  /\ \/ /\ CanFail
        /\ cd' = [cd EXCEPT ![k] = CdThrow(cd[k])]
        /\ faults' = faults - 1
        /\ UNCHANGED <<events, nextEventId>>
     \/ /\ LET change == cd[k].changes[cd[k].ci]
           IN events' = events \cup
                {NewEvent(DetectedEvent(cd[k].video, EventTypeOf(change), change.text))}
        /\ nextEventId' = nextEventId + 1
        /\ cd' = [cd EXCEPT ![k].pc = "notify", ![k].created = nextEventId]
        /\ UNCHANGED faults
  /\ UNCHANGED <<channel, videos, notifications, cs, sy>>
  /\ UNCHANGED <<channelStatus, sched, channelSyncQueue, nt, inbox,
               call, claimant, claimantStatistics, at>>

ClaimDetectNotify(k) ==
  /\ cd[k].st = "active" /\ cd[k].pc = "notify"
  /\ \/ /\ CanFail
        /\ cd' = [cd EXCEPT ![k] = CdThrow(cd[k])]
        /\ faults' = faults - 1
        /\ UNCHANGED notifications
     \/ /\ LET change == cd[k].changes[cd[k].ci]
           IN notifications' = notifications \cup
                {[type |-> IF EventTypeOf(change) = "REGION_RESTRICTION"
                           THEN "NEW_CLAIM" ELSE "MONETIZATION_CHANGE",
                  from |-> <<"claim-detect", k, cd[k].attemptsMade>>,
                  covers |-> {cd[k].created}, count |-> 1]}
        /\ cd' = [cd EXCEPT ![k] = CdAdvance([cd[k] EXCEPT !.created = 0])]
        /\ UNCHANGED faults
  /\ UNCHANGED <<channel, videos, events, nextEventId, cs, sy>>
  /\ UNCHANGED <<channelStatus, sched, channelSyncQueue, nt, inbox,
               call, claimant, claimantStatistics, at>>

\* prisma.video.update: the columns and previousState := the fetched state.
SavedVideo(video, currentVideo) ==
  [video EXCEPT !.privacyStatus = currentVideo.privacyStatus,
                !.uploadStatus = currentVideo.uploadStatus,
                !.blockedRegions = currentVideo.blockedRegions,
                !.previousState = Some(currentVideo)]

ClaimDetectSave(k) ==
  /\ cd[k].st = "active" /\ cd[k].pc = "save"
  /\ \/ /\ CanFail
        /\ cd' = [cd EXCEPT ![k] = CdThrow(cd[k])]
        /\ faults' = faults - 1
        /\ UNCHANGED videos
     \/ /\ videos' = [videos EXCEPT ![cd[k].video] = SavedVideo(@, cd[k].current)]
        /\ cd' = [cd EXCEPT ![k] = CdEnd(cd[k], "completed")]
        /\ UNCHANGED faults
  /\ UNCHANGED <<channel, events, nextEventId, notifications, cs, sy>>
  /\ UNCHANGED <<channelStatus, sched, channelSyncQueue, nt, inbox,
               call, claimant, claimantStatistics, at>>

\* PATCH /:eventId/status
UpdateEventStatus(id, status) ==
  /\ \E e \in events : e.id = id /\ e.status # status
  /\ events' = {IF e.id = id THEN [e EXCEPT !.status = status] ELSE e : e \in events}
  /\ UNCHANGED <<channel, videos, nextEventId, notifications, cs, faults, sy, cd>>
  /\ UNCHANGED <<channelStatus, sched, channelSyncQueue, nt, inbox,
               call, claimant, claimantStatistics, at>>

PatchStatuses == {"RESOLVED"}

\* ------------------------------------------------------------- notification
\* A notification job no worker has taken yet.
NtQueued == [st |-> "queued", attemptsMade |-> 0, pc |-> "idle"]

NtState(n) == IF n \in DOMAIN nt THEN nt[n] ELSE NtQueued

NtSet(n, job) == [m \in DOMAIN nt \cup {n} |-> IF m = n THEN job ELSE nt[m]]

\* The attempt throws: the catch block logs and rethrows.
NtThrow(job) ==
  [st |-> IF job.attemptsMade + 1 < NotificationAttempts THEN "queued" ELSE "failed",
   attemptsMade |-> job.attemptsMade + 1, pc |-> "idle"]

NtEnd(job) == [st |-> "completed", attemptsMade |-> job.attemptsMade, pc |-> "idle"]

\* The title of the job's payload, which the add site builds from the
\* notification's kind and count.
Title(n) == <<n.from[1], n.type, n.count>>

\* prisma.notification.create: the in-app notification.  Every add site
\* sets sendEmail, so the email follows.
NotificationCreate(n) ==
  /\ NtState(n).st = "queued"
  /\ \/ /\ CanFail
        /\ nt' = NtSet(n, NtThrow(NtState(n)))
        /\ faults' = faults - 1
        /\ UNCHANGED inbox
     \/ /\ inbox' = inbox \cup
             {[id |-> Cardinality(inbox) + 1, title |-> Title(n), type |-> n.type,
               emailSent |-> FALSE]}
        /\ nt' = NtSet(n, [NtState(n) EXCEPT !.st = "active", !.pc = "email"])
        /\ UNCHANGED faults
  /\ UNCHANGED <<channel, videos, events, nextEventId, notifications, cs, sy, cd>>
  /\ UNCHANGED <<channelStatus, sched, channelSyncQueue,
               call, claimant, claimantStatistics, at>>

\* sendEmailNotification: the user lookup, then updateMany marks the user's
\* unsent notifications of this title as sent.
NotificationEmail(n) ==
  /\ NtState(n).st = "active" /\ NtState(n).pc = "email"
  /\ \/ /\ CanFail
        /\ nt' = NtSet(n, NtThrow(NtState(n)))
        /\ faults' = faults - 1
        /\ UNCHANGED inbox
     \/ /\ nt' = NtSet(n, NtEnd(NtState(n)))
        /\ UNCHANGED <<inbox, faults>>
     \/ /\ inbox' = {IF r.title = Title(n) THEN [r EXCEPT !.emailSent = TRUE] ELSE r :
                       r \in inbox}
        /\ nt' = NtSet(n, NtEnd(NtState(n)))
        /\ UNCHANGED faults
  /\ UNCHANGED <<channel, videos, events, nextEventId, notifications, cs, sy, cd>>
  /\ UNCHANGED <<channelStatus, sched, channelSyncQueue,
               call, claimant, claimantStatistics, at>>

\* ------------------------------------------------------------- scheduler
\* runScheduler has been called and is about to run its first tick.
SchedStartup == [pc |-> "startup", tick |-> 0, channels |-> <<>>, i |-> 0]

\* where: { status: 'ACTIVE' }
ActiveChannels == {c \in ChannelIds : channelStatus[c] = "ACTIVE"}

\* The orders in which the store may return a set of rows: the query has no
\* orderBy.
Enumerations(S) ==
  {f \in [1..Cardinality(S) -> S] : \A x, y \in DOMAIN f : f[x] = f[y] => x = y}

\* The tick is over: the scheduler waits for the next interval.
SchedWait(s) == [s EXCEPT !.pc = "waiting"]

\* scheduleAllChannelSyncs up to its loop: the findMany of the ACTIVE
\* channels.  A rejected query is logged by the catch and ends the tick.
SchedulerFindMany ==
  /\ sched.pc \in {"startup", "interval"}
  /\ \/ /\ CanFail
        /\ sched' = SchedWait([sched EXCEPT !.tick = @ + 1, !.channels = <<>>, !.i = 0])
        /\ faults' = faults - 1
     \/ /\ \E channels \in Enumerations(ActiveChannels) :
             sched' = [pc |-> IF Len(channels) > 0 THEN "add" ELSE "waiting",
                       tick |-> sched.tick + 1, channels |-> channels, i |-> 0]
        /\ UNCHANGED faults
  /\ UNCHANGED <<channel, videos, events, nextEventId, notifications, cs, sy, cd>>
  /\ UNCHANGED <<channelStatus, channelSyncQueue, nt, inbox,
               call, claimant, claimantStatistics, at>>

\* { jobId: `scheduled-sync-${channel.id}-${Date.now()}`, delay: i * 5000 }
ScheduledJob(channelId, tick, i) ==
  [jobId |-> <<"scheduled-sync", channelId, tick>>, channelId |-> channelId,
   delay |-> i * StaggerMs]

\* One pass of the loop: channelSyncQueue.add for channels[i].  A rejected
\* add leaves the loop for the catch, which logs and ends the tick.
SchedulerAdd ==
  /\ sched.pc = "add"
  /\ \/ /\ CanFail
        /\ sched' = SchedWait(sched)
        /\ faults' = faults - 1
        /\ UNCHANGED channelSyncQueue
     \/ /\ channelSyncQueue' = channelSyncQueue \cup
             {ScheduledJob(sched.channels[sched.i + 1], sched.tick, sched.i)}
        /\ sched' = IF sched.i + 1 < Len(sched.channels)
                    THEN [sched EXCEPT !.i = @ + 1]
                    ELSE SchedWait([sched EXCEPT !.i = @ + 1])
        /\ UNCHANGED faults
  /\ UNCHANGED <<channel, videos, events, nextEventId, notifications, cs, sy, cd>>
  /\ UNCHANGED <<channelStatus, nt, inbox,
               call, claimant, claimantStatistics, at>>

\* setInterval: SYNC_INTERVAL_HOURS have passed.
IntervalFires ==
  /\ sched.pc = "waiting"
  /\ sched.tick < MaxTicks
  /\ sched' = [sched EXCEPT !.pc = "interval"]
  /\ UNCHANGED <<channel, videos, events, nextEventId, notifications, cs, sy, cd, faults>>
  /\ UNCHANGED <<channelStatus, channelSyncQueue, nt, inbox,
               call, claimant, claimantStatistics, at>>

\* PATCH /:channelId/status: pause or resume a channel.
UpdateChannelStatus(c, status) ==
  /\ status \in {"ACTIVE", "PAUSED"}
  /\ ~(status = "ACTIVE" /\ channelStatus[c] = "REVOKED")
  /\ channelStatus[c] # status
  /\ channelStatus' = [channelStatus EXCEPT ![c] = status]
  /\ UNCHANGED <<channel, videos, events, nextEventId, notifications, cs, sy, cd, faults>>
  /\ UNCHANGED <<sched, channelSyncQueue, nt, inbox,
               call, claimant, claimantStatistics, at>>

\* ------------------------------------------------------------- specification
\* The scheduler has not been started and no notification job has been taken.
RestInit ==
  /\ channelStatus = [c \in ChannelIds |-> "ACTIVE"]
  /\ sched = SchedStartup
  /\ channelSyncQueue = {}
  /\ nt = <<>>
  /\ inbox = {}
  /\ call = NoCall
  /\ claimant = {}
  /\ claimantStatistics = {}
  /\ at = <<>>

Init ==
  /\ channel \in [status : {"ACTIVE"}, contentOwnerId : {Null},
                  lastClaimSyncAt : {Null}, lastSyncAt : {Null}, lastSyncError : {Null},
                  accessToken : {StoredToken}, refreshToken : {StoredToken},
                  tokenExpired : {FALSE}]
  /\ videos = [v \in {TrackedVideo} |->
                [NoVideo EXCEPT !.exists = TRUE, !.privacyStatus = "public",
                                !.uploadStatus = "processed"]]
  /\ events = {}
  /\ nextEventId = 1
  /\ notifications = {}
  /\ cs = [j \in ClaimSyncJobIds |-> CsIdle]
  /\ sy = [j \in SyncJobIds |-> SyIdle]
  /\ cd = [k \in DetectJobIds |-> CdIdle]
  /\ faults = MaxFailures
  /\ RestInit

Next ==
  \/ \E j \in ClaimSyncJobIds : EnqueueClaimSync(j)
  \/ \E j \in ClaimSyncJobIds : ClaimSyncStart(j)
  \/ \E j \in ClaimSyncJobIds : ClaimSyncGetOwner(j)
  \/ \E j \in ClaimSyncJobIds : ClaimSyncSearch(j)
  \/ \E j \in ClaimSyncJobIds : ClaimSyncItem(j)
  \/ \E j \in ClaimSyncJobIds : ClaimSyncUpdate(j)
  \/ \E j \in ClaimSyncJobIds : ClaimSyncCreate(j)
  \/ \E j \in ClaimSyncJobIds : ClaimSyncFinish(j)
  \/ \E j \in ClaimSyncJobIds : ClaimSyncNotify(j)
  \/ \E j \in ClaimSyncJobIds : ClaimSyncCatch(j)

Spec == Init /\ [][Next]_vars

\* Claim-sync runs one after the other: at most one job is inside its handler.
Sequential == Cardinality({j \in ClaimSyncJobIds : cs[j].st = "active"}) <= 1
ClaimSyncStartSeq(j) == ClaimSyncStart(j) /\ Sequential'
SeqNext ==
  \/ \E j \in ClaimSyncJobIds : EnqueueClaimSync(j)
  \/ \E j \in ClaimSyncJobIds : ClaimSyncStartSeq(j)
  \/ \E j \in ClaimSyncJobIds : ClaimSyncGetOwner(j)
  \/ \E j \in ClaimSyncJobIds : ClaimSyncSearch(j)
  \/ \E j \in ClaimSyncJobIds : ClaimSyncItem(j)
  \/ \E j \in ClaimSyncJobIds : ClaimSyncUpdate(j)
  \/ \E j \in ClaimSyncJobIds : ClaimSyncCreate(j)
  \/ \E j \in ClaimSyncJobIds : ClaimSyncFinish(j)
  \/ \E j \in ClaimSyncJobIds : ClaimSyncNotify(j)
  \/ \E j \in ClaimSyncJobIds : ClaimSyncCatch(j)
SeqSpec == Init /\ [][SeqNext]_vars

\* The channel-sync / claim-detect pipeline on a freshly connected channel.
DetectInit ==
  /\ channel = [status |-> "ACTIVE", contentOwnerId |-> Null, lastClaimSyncAt |-> Null,
                lastSyncAt |-> Null, lastSyncError |-> Null,
                accessToken |-> StoredToken, refreshToken |-> StoredToken,
                tokenExpired |-> FALSE]
  /\ videos = [v \in {TrackedVideo} |-> NoVideo]
  /\ events = {}
  /\ nextEventId = 1
  /\ notifications = {}
  /\ cs = [j \in ClaimSyncJobIds |-> CsIdle]
  /\ sy = [j \in SyncJobIds |-> SyIdle]
  /\ cd = [k \in DetectJobIds |-> CdIdle]
  /\ faults = MaxFailures
  /\ RestInit

DetectNext ==
  \/ \E j \in SyncJobIds : EnqueueChannelSync(j)
  \/ \E j \in SyncJobIds : ChannelSyncStart(j)
  \/ \E j \in SyncJobIds : ChannelSyncInfo(j)
  \/ \E j \in SyncJobIds : ChannelSyncList(j)
  \/ \E j \in SyncJobIds : ChannelSyncItem(j)
  \/ \E j \in SyncJobIds : ChannelSyncWrite(j)
  \/ \E j \in SyncJobIds : ChannelSyncEnqueue(j)
  \/ \E j \in SyncJobIds : ChannelSyncFinish(j)
  \/ \E j \in SyncJobIds : ChannelSyncCatch(j)
  \/ \E k \in DetectJobIds : ClaimDetectStart(k)
  \/ \E k \in DetectJobIds : ClaimDetectGone(k)
  \/ \E k \in DetectJobIds : ClaimDetectFind(k)
  \/ \E k \in DetectJobIds : ClaimDetectCreate(k)
  \/ \E k \in DetectJobIds : ClaimDetectNotify(k)
  \/ \E k \in DetectJobIds : ClaimDetectSave(k)
  \/ \E e \in events, s \in PatchStatuses : UpdateEventStatus(e.id, s)

DetectSpec == DetectInit /\ [][DetectNext]_vars

\* Claim-detect runs one after the other: at most one job is inside its
\* handler; channel-sync jobs and status updates interleave freely.
DetectSequential == Cardinality({k \in DetectJobIds : cd[k].st = "active"}) <= 1
ClaimDetectStartSeq(k) == ClaimDetectStart(k) /\ DetectSequential'
DetectSeqNext ==
  \/ \E j \in SyncJobIds : EnqueueChannelSync(j)
  \/ \E j \in SyncJobIds : ChannelSyncStart(j)
  \/ \E j \in SyncJobIds : ChannelSyncInfo(j)
  \/ \E j \in SyncJobIds : ChannelSyncList(j)
  \/ \E j \in SyncJobIds : ChannelSyncItem(j)
  \/ \E j \in SyncJobIds : ChannelSyncWrite(j)
  \/ \E j \in SyncJobIds : ChannelSyncEnqueue(j)
  \/ \E j \in SyncJobIds : ChannelSyncFinish(j)
  \/ \E j \in SyncJobIds : ChannelSyncCatch(j)
  \/ \E k \in DetectJobIds : ClaimDetectStartSeq(k)
  \/ \E k \in DetectJobIds : ClaimDetectGone(k)
  \/ \E k \in DetectJobIds : ClaimDetectFind(k)
  \/ \E k \in DetectJobIds : ClaimDetectCreate(k)
  \/ \E k \in DetectJobIds : ClaimDetectNotify(k)
  \/ \E k \in DetectJobIds : ClaimDetectSave(k)
  \/ \E e \in events, s \in PatchStatuses : UpdateEventStatus(e.id, s)
DetectSeqSpec == DetectInit /\ [][DetectSeqNext]_vars

\* The two-sync scenario: a channel with one video, nothing fails, the first
\* channel-sync and its claim-detect observe no blocked regions, the second
\* channel-sync starts once the first round is over and it and its
\* claim-detect observe DE and FR blocked.  One claim-sync job and event
\* status updates go on beside it.
FirstRoundOver ==
  /\ sy[1].st = "completed"
  /\ \A k \in DetectJobIds : cd[k].st \in {"none", "completed"}
  /\ \E k \in DetectJobIds : cd[k].st = "completed"
SecondRound == sy[2].st \in {"active", "completed"}
Observed == IF SecondRound THEN <<"DE", "FR">> ELSE <<>>
E2EEnqueueChannelSync(j) == j <= 2 /\ EnqueueChannelSync(j)
E2EChannelSyncStart(j) ==
  /\ j = 2 => FirstRoundOver
  /\ ChannelSyncStart(j)
  /\ UNCHANGED faults
E2EChannelSyncInfo(j) == ChannelSyncInfo(j) /\ UNCHANGED faults
E2EChannelSyncList(j) ==
  ChannelSyncList(j) /\ sy'[j].n = 1 /\ ~sy'[j].hasNext /\ UNCHANGED faults
E2EChannelSyncItem(j) ==
  ChannelSyncItem(j) /\ sy'[j].info.blockedRegions = Observed /\ UNCHANGED faults
E2EChannelSyncWrite(j) == ChannelSyncWrite(j) /\ UNCHANGED faults
E2EChannelSyncEnqueue(j) == ChannelSyncEnqueue(j) /\ UNCHANGED faults
E2EChannelSyncFinish(j) == ChannelSyncFinish(j) /\ UNCHANGED faults
E2EClaimDetectStart(k) ==
  /\ ClaimDetectStart(k)
  /\ cd'[k].st = "active" /\ cd'[k].pc # "gone"
  /\ cd'[k].current.blockedRegions = Observed
  /\ UNCHANGED faults
E2EClaimDetectFind(k) == ClaimDetectFind(k) /\ UNCHANGED faults
E2EClaimDetectCreate(k) == ClaimDetectCreate(k) /\ UNCHANGED faults
E2EClaimDetectNotify(k) == ClaimDetectNotify(k) /\ UNCHANGED faults
E2EClaimDetectSave(k) == ClaimDetectSave(k) /\ UNCHANGED faults
E2EEnqueueClaimSync(j) == j <= 1 /\ EnqueueClaimSync(j)
E2EClaimSyncStart(j) == ClaimSyncStart(j) /\ UNCHANGED faults
E2EClaimSyncGetOwner(j) == ClaimSyncGetOwner(j) /\ UNCHANGED faults
E2EClaimSyncSearch(j) == ClaimSyncSearch(j) /\ UNCHANGED faults
E2EClaimSyncItem(j) == ClaimSyncItem(j) /\ UNCHANGED faults
E2EClaimSyncUpdate(j) == ClaimSyncUpdate(j) /\ UNCHANGED faults
E2EClaimSyncCreate(j) == ClaimSyncCreate(j) /\ UNCHANGED faults
E2EClaimSyncFinish(j) == ClaimSyncFinish(j) /\ UNCHANGED faults
E2EClaimSyncNotify(j) == ClaimSyncNotify(j) /\ UNCHANGED faults
E2ENext ==
  \/ \E j \in SyncJobIds : E2EEnqueueChannelSync(j)
  \/ \E j \in SyncJobIds : E2EChannelSyncStart(j)
  \/ \E j \in SyncJobIds : E2EChannelSyncInfo(j)
  \/ \E j \in SyncJobIds : E2EChannelSyncList(j)
  \/ \E j \in SyncJobIds : E2EChannelSyncItem(j)
  \/ \E j \in SyncJobIds : E2EChannelSyncWrite(j)
  \/ \E j \in SyncJobIds : E2EChannelSyncEnqueue(j)
  \/ \E j \in SyncJobIds : E2EChannelSyncFinish(j)
  \/ \E k \in DetectJobIds : E2EClaimDetectStart(k)
  \/ \E k \in DetectJobIds : E2EClaimDetectFind(k)
  \/ \E k \in DetectJobIds : E2EClaimDetectCreate(k)
  \/ \E k \in DetectJobIds : E2EClaimDetectNotify(k)
  \/ \E k \in DetectJobIds : E2EClaimDetectSave(k)
  \/ \E j \in ClaimSyncJobIds : E2EEnqueueClaimSync(j)
  \/ \E j \in ClaimSyncJobIds : E2EClaimSyncStart(j)
  \/ \E j \in ClaimSyncJobIds : E2EClaimSyncGetOwner(j)
  \/ \E j \in ClaimSyncJobIds : E2EClaimSyncSearch(j)
  \/ \E j \in ClaimSyncJobIds : E2EClaimSyncItem(j)
  \/ \E j \in ClaimSyncJobIds : E2EClaimSyncUpdate(j)
  \/ \E j \in ClaimSyncJobIds : E2EClaimSyncCreate(j)
  \/ \E j \in ClaimSyncJobIds : E2EClaimSyncFinish(j)
  \/ \E j \in ClaimSyncJobIds : E2EClaimSyncNotify(j)
  \/ \E e \in events, s \in PatchStatuses : UpdateEventStatus(e.id, s)
E2ESpec == DetectInit /\ [][E2ENext]_vars

\* Channel-sync jobs alone, with the access credential expiring as time
\* passes.
TokenNext ==
  \/ \E j \in SyncJobIds : EnqueueChannelSync(j)
  \/ \E j \in SyncJobIds : ChannelSyncStart(j)
  \/ \E j \in SyncJobIds : ChannelSyncRefresh(j)
  \/ \E j \in SyncJobIds : ChannelSyncPersist(j)
  \/ \E j \in SyncJobIds : ChannelSyncInfo(j)
  \/ \E j \in SyncJobIds : ChannelSyncList(j)
  \/ \E j \in SyncJobIds : ChannelSyncItem(j)
  \/ \E j \in SyncJobIds : ChannelSyncWrite(j)
  \/ \E j \in SyncJobIds : ChannelSyncEnqueue(j)
  \/ \E j \in SyncJobIds : ChannelSyncFinish(j)
  \/ \E j \in SyncJobIds : ChannelSyncCatch(j)
  \/ TokenExpires
TokenSpec == DetectInit /\ [][TokenNext]_vars

\* Channel-sync jobs alone on a channel with two videos, one stored already
\* and one not yet.
ChannelVideos == {"v1", "v2"}
StoredVideo ==
  [NoVideo EXCEPT !.exists = TRUE, !.privacyStatus = "public",
                  !.uploadStatus = "processed"]
FanInit ==
  /\ channel = [status |-> "ACTIVE", contentOwnerId |-> Null, lastClaimSyncAt |-> Null,
                lastSyncAt |-> Null, lastSyncError |-> Null,
                accessToken |-> StoredToken, refreshToken |-> StoredToken,
                tokenExpired |-> FALSE]
  /\ videos = [v \in ChannelVideos |-> IF v = TrackedVideo THEN StoredVideo ELSE NoVideo]
  /\ events = {}
  /\ nextEventId = 1
  /\ notifications = {}
  /\ cs = [j \in ClaimSyncJobIds |-> CsIdle]
  /\ sy = [j \in SyncJobIds |-> SyIdle]
  /\ cd = [k \in DetectJobIds |-> CdIdle]
  /\ faults = MaxFailures
  /\ RestInit
FanNext ==
  \/ \E j \in SyncJobIds : EnqueueChannelSync(j)
  \/ \E j \in SyncJobIds : ChannelSyncStart(j)
  \/ \E j \in SyncJobIds : ChannelSyncInfo(j)
  \/ \E j \in SyncJobIds : ChannelSyncList(j)
  \/ \E j \in SyncJobIds : ChannelSyncItem(j)
  \/ \E j \in SyncJobIds : ChannelSyncWrite(j)
  \/ \E j \in SyncJobIds : ChannelSyncEnqueue(j)
  \/ \E j \in SyncJobIds : ChannelSyncFinish(j)
  \/ \E j \in SyncJobIds : ChannelSyncCatch(j)
FanSpec == FanInit /\ [][FanNext]_vars

\* The scheduler over a table of channels in any statuses, with users
\* pausing and resuming channels as it runs.
SchedInit ==
  /\ channel = [status |-> "ACTIVE", contentOwnerId |-> Null, lastClaimSyncAt |-> Null,
                lastSyncAt |-> Null, lastSyncError |-> Null,
                accessToken |-> StoredToken, refreshToken |-> StoredToken,
                tokenExpired |-> FALSE]
  /\ videos = [v \in {TrackedVideo} |-> NoVideo]
  /\ events = {}
  /\ nextEventId = 1
  /\ notifications = {}
  /\ cs = [j \in ClaimSyncJobIds |-> CsIdle]
  /\ sy = [j \in SyncJobIds |-> SyIdle]
  /\ cd = [k \in DetectJobIds |-> CdIdle]
  /\ faults = MaxFailures
  /\ channelStatus \in [ChannelIds -> ChannelStatuses]
  /\ sched = SchedStartup
  /\ channelSyncQueue = {}
  /\ nt = <<>>
  /\ inbox = {}
  /\ call = NoCall
  /\ claimant = {}
  /\ claimantStatistics = {}
  /\ at = <<>>
SchedNext ==
  \/ SchedulerFindMany
  \/ SchedulerAdd
  \/ IntervalFires
  \/ \E c \in ChannelIds, status \in {"ACTIVE", "PAUSED"} : UpdateChannelStatus(c, status)
SchedSpec == SchedInit /\ [][SchedNext]_vars

\* The four kinds of job: one claim-sync or one channel-sync job is submitted
\* and runs with the jobs it leads to, one job inside its handler at a time,
\* with enough faults to use up the largest retry budget.  The videos are on
\* the platform and claim-detect finds no change to report.
ActiveJobs ==
  Cardinality({j \in ClaimSyncJobIds : cs[j].st = "active"})
  + Cardinality({j \in SyncJobIds : sy[j].st = "active"})
  + Cardinality({k \in DetectJobIds : cd[k].st = "active"})
  + Cardinality({n \in DOMAIN nt : nt[n].st = "active"})
OneAtATime == ActiveJobs <= 1
JobsInit ==
  /\ channel = [status |-> "ACTIVE", contentOwnerId |-> Null, lastClaimSyncAt |-> Null,
                lastSyncAt |-> Null, lastSyncError |-> Null,
                accessToken |-> StoredToken, refreshToken |-> StoredToken,
                tokenExpired |-> FALSE]
  /\ videos = [v \in {TrackedVideo} |-> StoredVideo]
  /\ events = {}
  /\ nextEventId = 1
  /\ notifications = {}
  /\ cs = [j \in ClaimSyncJobIds |-> CsIdle]
  /\ sy = [j \in SyncJobIds |-> SyIdle]
  /\ cd = [k \in DetectJobIds |-> CdIdle]
  /\ faults = JobFaults
  /\ RestInit
NothingSubmitted ==
  /\ \A j \in ClaimSyncJobIds : cs[j].st = "none"
  /\ \A j \in SyncJobIds : sy[j].st = "none"
JobsEnqueueClaimSync(j) == NothingSubmitted /\ EnqueueClaimSync(j)
JobsEnqueueChannelSync(j) == NothingSubmitted /\ EnqueueChannelSync(j)
JobsClaimSyncStart(j) == ClaimSyncStart(j) /\ OneAtATime'
JobsChannelSyncStart(j) == ChannelSyncStart(j) /\ OneAtATime'
JobsClaimDetectStart(k) ==
  /\ ClaimDetectStart(k)
  /\ OneAtATime'
  /\ cd'[k].st = "active" => cd'[k].pc = "save"
JobsNotificationCreate(n) == NotificationCreate(n) /\ OneAtATime'
JobsNext ==
  \/ \E j \in ClaimSyncJobIds : JobsEnqueueClaimSync(j)
  \/ \E j \in ClaimSyncJobIds : JobsClaimSyncStart(j)
  \/ \E j \in ClaimSyncJobIds : ClaimSyncGetOwner(j)
  \/ \E j \in ClaimSyncJobIds : ClaimSyncSearch(j)
  \/ \E j \in ClaimSyncJobIds : ClaimSyncItem(j)
  \/ \E j \in ClaimSyncJobIds : ClaimSyncUpdate(j)
  \/ \E j \in ClaimSyncJobIds : ClaimSyncCreate(j)
  \/ \E j \in ClaimSyncJobIds : ClaimSyncFinish(j)
  \/ \E j \in ClaimSyncJobIds : ClaimSyncNotify(j)
  \/ \E j \in ClaimSyncJobIds : ClaimSyncCatch(j)
  \/ \E j \in SyncJobIds : JobsEnqueueChannelSync(j)
  \/ \E j \in SyncJobIds : JobsChannelSyncStart(j)
  \/ \E j \in SyncJobIds : ChannelSyncInfo(j)
  \/ \E j \in SyncJobIds : ChannelSyncList(j)
  \/ \E j \in SyncJobIds : ChannelSyncItem(j)
  \/ \E j \in SyncJobIds : ChannelSyncWrite(j)
  \/ \E j \in SyncJobIds : ChannelSyncEnqueue(j)
  \/ \E j \in SyncJobIds : ChannelSyncFinish(j)
  \/ \E j \in SyncJobIds : ChannelSyncCatch(j)
  \/ \E k \in DetectJobIds : JobsClaimDetectStart(k)
  \/ \E k \in DetectJobIds : ClaimDetectSave(k)
  \/ \E n \in notifications : JobsNotificationCreate(n)
  \/ \E n \in notifications : NotificationEmail(n)
JobsSpec == JobsInit /\ [][JobsNext]_vars

\* Everything but the call under study is at rest.
AtRest ==
  /\ channel = [status |-> "ACTIVE", contentOwnerId |-> Null, lastClaimSyncAt |-> Null,
                lastSyncAt |-> Null, lastSyncError |-> Null,
                accessToken |-> StoredToken, refreshToken |-> StoredToken,
                tokenExpired |-> FALSE]
  /\ videos = [v \in {TrackedVideo} |-> NoVideo]
  /\ events = {}
  /\ nextEventId = 1
  /\ notifications = {}
  /\ cs = [j \in ClaimSyncJobIds |-> CsIdle]
  /\ sy = [j \in SyncJobIds |-> SyIdle]
  /\ cd = [k \in DetectJobIds |-> CdIdle]
  /\ faults = 0
  /\ channelStatus = [c \in ChannelIds |-> "ACTIVE"]
  /\ sched = SchedStartup
  /\ channelSyncQueue = {}
  /\ nt = <<>>
  /\ inbox = {}

\* ------------------------------------------------------------- reconcile
\* One claim-sync job reconciling, page by page, claims that differ in status,
\* policies, match segment and creation time, without failures.
ReconcilePolicies ==
  {Null, Some(<<>>), Some(<<"monetize">>), Some(<<"Block", "track">>)}
    \X {Null, Some(<<>>), Some(<<"Block">>), Some(<<"track", "Block">>)}
ReconcileMatchInfos ==
  {Null,
   Some([matchSegments |-> Some(<<[video_segment |->
           Some([start |-> <<"P", "T", "0", "S">>,
                 duration |-> <<"P", "T", "1", "M", "3", "0", "S">>]),
           channel |-> Some("audio")]>>)]),
   Some([matchSegments |-> Some(<<[video_segment |->
           Some([start |-> <<"P", "T", "3", "0", "S">>,
                 duration |-> <<"P", "T", "1", ".", "5", "S">>]),
           channel |-> Some("audio")]>>)])}
ReconcileClaims ==
  [id : ClaimIds, videoId : {TrackedVideo}, status : ClaimStatuses \cup {"inactive"},
   pol : ReconcilePolicies, matchInfo : ReconcileMatchInfos,
   timeCreated : {Null, Some("t1")}]

ReconcileInit ==
  /\ channel \in [status : {"ACTIVE"}, contentOwnerId : {Null},
                  lastClaimSyncAt : {Null}, lastSyncAt : {Null}, lastSyncError : {Null},
                  accessToken : {StoredToken}, refreshToken : {StoredToken},
                  tokenExpired : {FALSE}]
  /\ videos = [v \in {TrackedVideo} |->
                [NoVideo EXCEPT !.exists = TRUE, !.privacyStatus = "public",
                                !.uploadStatus = "processed"]]
  /\ events = {}
  /\ nextEventId = 1
  /\ notifications = {}
  /\ cs = [j \in ClaimSyncJobIds |-> CsIdle]
  /\ sy = [j \in SyncJobIds |-> SyIdle]
  /\ cd = [k \in DetectJobIds |-> CdIdle]
  /\ faults = 0
  /\ RestInit

ReconcileNext ==
  \/ EnqueueClaimSync(1)
  \/ \E j \in ClaimSyncJobIds : ClaimSyncStart(j)
  \/ \E j \in ClaimSyncJobIds : ClaimSyncGetOwner(j)
  \/ \E j \in ClaimSyncJobIds : ClaimSyncSearch(j)
  \/ \E j \in ClaimSyncJobIds : ClaimSyncItemOf(j, ReconcileClaims)
  \/ \E j \in ClaimSyncJobIds : ClaimSyncUpdate(j)
  \/ \E j \in ClaimSyncJobIds : ClaimSyncCreate(j)
  \/ \E j \in ClaimSyncJobIds : ClaimSyncFinish(j)
  \/ \E j \in ClaimSyncJobIds : ClaimSyncNotify(j)
ReconcileSpec == ReconcileInit /\ [][ReconcileNext]_vars

\* ------------------------------------------------------------- claimant attribution
\* createCopyrightEvent called concurrently, each call with a claimant name or
\* none; every await is a step.
NumAttributions == 3
AttributionIds == 1..NumAttributions
ClaimantNames == {"Universal Music Group, Inc.", "universal music group inc", "Sony Music"}

\* toLowerCase, trim, drop a trailing company suffix, drop punctuation,
\* collapse white space: on the names above.
normalizeClaimantName(name) ==
  CASE name = "Universal Music Group, Inc." -> "universal music group"
    [] name = "universal music group inc" -> "universal music group"
    [] name = "Sony Music" -> "sony music"
    [] OTHER -> name

ClaimantByName(nameNormalized) == {c \in claimant : c.nameNormalized = nameNormalized}

\* An upsert that inserts its row whether or not the name is already there.
InsertedClaimant(rows, claimantName) ==
  rows \cup {[id |-> Cardinality(rows) + 1, name |-> claimantName,
               nameNormalized |-> normalizeClaimantName(claimantName),
               type |-> "UNKNOWN"]}

\* prisma.claimant.upsert({ where: { nameNormalized }, create, update: {} }):
\* one statement of the store on the unique key nameNormalized.
UpsertedClaimant(rows, claimantName) ==
  IF \E c \in rows : c.nameNormalized = normalizeClaimantName(claimantName)
  THEN rows
  ELSE rows \cup {[id |-> Cardinality(rows) + 1, name |-> claimantName,
                    nameNormalized |-> normalizeClaimantName(claimantName),
                    type |-> "UNKNOWN"]}

\* prisma.claimantStatistics.upsert({ where: { claimantId },
\*   create: { totalClaims: 1 }, update: { totalClaims: { increment: 1 } } })
UpsertedStatistics(rows, claimantId) ==
  IF \E r \in rows : r.claimantId = claimantId
  THEN {IF r.claimantId = claimantId THEN [r EXCEPT !.totalClaims = @ + 1] ELSE r :
          r \in rows}
  ELSE rows \cup {[claimantId |-> claimantId, totalClaims |-> 1]}

AtCall(claimantName) ==
  [pc |-> IF claimantName = Null THEN "create" ELSE "claimant",
   claimantName |-> claimantName, claimantId |-> Null]

AttributionInit ==
  /\ AtRest
  /\ call = NoCall
  /\ claimant = {}
  /\ claimantStatistics = {}
  /\ at \in [AttributionIds ->
              {AtCall(n) : n \in {Null} \cup {Some(x) : x \in ClaimantNames}}]

CreateEventUpsertClaimant(i) ==
  /\ at[i].pc = "claimant"
  /\ claimant' = UpsertedClaimant(claimant, at[i].claimantName[1])
  /\ at' = [at EXCEPT ![i].pc = "statistics",
                      ![i].claimantId =
                        LET c == CHOOSE x \in claimant' :
                                   x.nameNormalized =
                                     normalizeClaimantName(at[i].claimantName[1])
                        IN Some(c.id)]
  /\ UNCHANGED <<channel, videos, events, nextEventId, notifications, cs, sy, cd, faults>>
  /\ UNCHANGED <<channelStatus, sched, channelSyncQueue, nt, inbox, call,
                 claimantStatistics>>

CreateEventUpsertStatistics(i) ==
  /\ at[i].pc = "statistics"
  /\ claimantStatistics' = UpsertedStatistics(claimantStatistics, at[i].claimantId[1])
  /\ at' = [at EXCEPT ![i].pc = "create"]
  /\ UNCHANGED <<channel, videos, events, nextEventId, notifications, cs, sy, cd, faults>>
  /\ UNCHANGED <<channelStatus, sched, channelSyncQueue, nt, inbox, call, claimant>>

CreateEventCreate(i) ==
  /\ at[i].pc = "create"
  /\ events' = events \cup
       {NewEvent([DetectedEvent(TrackedVideo, "CLAIM", "claimed")
                    EXCEPT !.claimantId = at[i].claimantId])}
  /\ nextEventId' = nextEventId + 1
  /\ at' = [at EXCEPT ![i].pc = "done"]
  /\ UNCHANGED <<channel, videos, notifications, cs, sy, cd, faults>>
  /\ UNCHANGED <<channelStatus, sched, channelSyncQueue, nt, inbox, call,
                 claimant, claimantStatistics>>

AttributionNext ==
  \/ \E i \in AttributionIds : CreateEventUpsertClaimant(i)
  \/ \E i \in AttributionIds : CreateEventUpsertStatistics(i)
  \/ \E i \in AttributionIds : CreateEventCreate(i)
AttributionSpec == AttributionInit /\ [][AttributionNext]_vars

\* ------------------------------------------------------------- paused and deleted channels
\* Jobs that start after their channel was paused, resumed or deleted, without
\* failures. The Channel row that is gone is the status Deleted: the lookup
\* finds no row.
Deleted == "DELETED"
NoJobActive ==
  /\ \A j \in ClaimSyncJobIds : cs[j].st # "active"
  /\ \A j \in SyncJobIds : sy[j].st # "active"

\* PATCH /:channelId/status on the channel of the jobs.
PatchChannelStatus(status) ==
  /\ status \in {"ACTIVE", "PAUSED"}
  /\ channel.status # Deleted
  /\ ~(status = "ACTIVE" /\ channel.status = "REVOKED")
  /\ channel.status # status
  /\ channel' = [channel EXCEPT !.status = status]
  /\ UNCHANGED <<videos, events, nextEventId, notifications, cs, sy, cd, faults>>
  /\ UNCHANGED <<channelStatus, sched, channelSyncQueue, nt, inbox,
                 call, claimant, claimantStatistics, at>>

\* DELETE /:channelId
DeleteChannel ==
  /\ channel.status # Deleted
  /\ channel' = [channel EXCEPT !.status = Deleted]
  /\ UNCHANGED <<videos, events, nextEventId, notifications, cs, sy, cd, faults>>
  /\ UNCHANGED <<channelStatus, sched, channelSyncQueue, nt, inbox,
                 call, claimant, claimantStatistics, at>>

\* The routes act between jobs, and the jobs run one after the other.
PatchBetweenJobs(status) == NoJobActive /\ PatchChannelStatus(status)
DeleteBetweenJobs == NoJobActive /\ DeleteChannel
ClaimSyncStartAlone(j) == NoJobActive /\ ClaimSyncStart(j)
ChannelSyncStartAlone(j) == NoJobActive /\ ChannelSyncStart(j)

InactiveNext ==
  \/ \E j \in ClaimSyncJobIds : EnqueueClaimSync(j)
  \/ \E j \in SyncJobIds : EnqueueChannelSync(j)
  \/ \E status \in {"ACTIVE", "PAUSED"} : PatchBetweenJobs(status)
  \/ DeleteBetweenJobs
  \/ \E j \in ClaimSyncJobIds : ClaimSyncStartAlone(j)
  \/ \E j \in ClaimSyncJobIds : ClaimSyncGetOwner(j)
  \/ \E j \in ClaimSyncJobIds : ClaimSyncSearch(j)
  \/ \E j \in ClaimSyncJobIds : ClaimSyncItem(j)
  \/ \E j \in ClaimSyncJobIds : ClaimSyncUpdate(j)
  \/ \E j \in ClaimSyncJobIds : ClaimSyncCreate(j)
  \/ \E j \in ClaimSyncJobIds : ClaimSyncFinish(j)
  \/ \E j \in ClaimSyncJobIds : ClaimSyncNotify(j)
  \/ \E j \in SyncJobIds : ChannelSyncStartAlone(j)
  \/ \E j \in SyncJobIds : ChannelSyncInfo(j)
  \/ \E j \in SyncJobIds : ChannelSyncList(j)
  \/ \E j \in SyncJobIds : ChannelSyncItem(j)
  \/ \E j \in SyncJobIds : ChannelSyncWrite(j)
  \/ \E j \in SyncJobIds : ChannelSyncEnqueue(j)
  \/ \E j \in SyncJobIds : ChannelSyncFinish(j)
InactiveSpec == ReconcileInit /\ [][InactiveNext]_vars

\* ------------------------------------------------------------- diff engine calls
\* The state diff engine called on a pair of snapshots: any current state and
\* any previous state, or none.
MaxRegions == 2
MaxRuns == 2
Regions == {"DE", "FR"}
RegionLists == UNION {[1..n -> Regions] : n \in 0..MaxRegions}
DiffStates ==
  [privacyStatus : {"public", "private"}, uploadStatus : {"processed", "rejected"},
   blockedRegions : RegionLists]

DiffInit ==
  /\ AtRest
  /\ call \in [fn : {"detectPotentialIssues"},
                args : DiffStates \X ({Null} \cup {Some(p) : p \in DiffStates}),
                result : {Null}, runs : {0}]
  /\ claimant = {}
  /\ claimantStatistics = {}
  /\ at = <<>>

\* return { hasIssues: changes.length > 0, changes }
DiffResult(changes) == [hasIssues |-> Len(changes) > 0, changes |-> changes]

DetectPotentialIssuesCall ==
  /\ call.fn = "detectPotentialIssues"
  /\ call.runs < MaxRuns
  /\ call' = [call EXCEPT
       !.result = Some(DiffResult(detectPotentialIssues(call.args[1], call.args[2]))),
       !.runs = @ + 1]
  /\ UNCHANGED <<channel, videos, events, nextEventId, notifications, cs, sy, cd, faults>>
  /\ UNCHANGED <<channelStatus, sched, channelSyncQueue, nt, inbox,
                 claimant, claimantStatistics, at>>

DiffNext == DetectPotentialIssuesCall
DiffSpec == DiffInit /\ [][DiffNext]_vars

\* ------------------------------------------------------------- match info calls
MatchInit ==
  /\ AtRest
  /\ call \in [fn : {"parseMatchInfo"}, args : {<<mi>> : mi \in MatchInfos},
                result : {Null}, runs : {0}]
  /\ claimant = {}
  /\ claimantStatistics = {}
  /\ at = <<>>

ParseMatchInfoCall ==
  /\ call.fn = "parseMatchInfo"
  /\ call.runs < MaxRuns
  /\ call' = [call EXCEPT !.result = Some(parseMatchInfo(call.args[1])), !.runs = @ + 1]
  /\ UNCHANGED <<channel, videos, events, nextEventId, notifications, cs, sy, cd, faults>>
  /\ UNCHANGED <<channelStatus, sched, channelSyncQueue, nt, inbox,
                 claimant, claimantStatistics, at>>

MatchNext == ParseMatchInfoCall
MatchSpec == MatchInit /\ [][MatchNext]_vars

\* ------------------------------------------------------------- claims
ItemPcs == {"item", "update", "create"}
LoopPcs == {"item", "search", "finish"}

\* Job j's handler returned from processContentIdClaim in this step.
Returned(j) ==
  /\ cs[j].st = "active" /\ cs[j].pc \in ItemPcs
  /\ cs'[j] # cs[j]
  /\ cs'[j].pc \in LoopPcs
  /\ cs'[j].result \in {"new", "updated", "unchanged"}

SameCounts(j) ==
  /\ cs'[j].newClaims = cs[j].newClaims
  /\ cs'[j].updatedClaims = cs[j].updatedClaims

\* C1: in every reachable state the event store holds at most one
\* CopyrightEvent for each external claim identifier, whatever the
\* interleaving of claim-sync jobs and their retries.
C1_OneEventPerClaimId ==
  \A e1, e2 \in events :
    (e1.youtubeClaimId # 0 /\ e1.youtubeClaimId = e2.youtubeClaimId) => e1 = e2

\* Two jobs raced to create the same claim and the store rejected the loser.
C1_Witness ==
  \E j \in ClaimSyncJobIds :
    /\ cs[j].pc = "catch" /\ cs[j].err = ErrUnique
    /\ EventByClaimId(cs[j].claim.id) # {}

\* Two events record the same platform-observed change of the same video.
SameChange(e1, e2) ==
  /\ e1.youtubeClaimId = 0 /\ e2.youtubeClaimId = 0
  /\ e1.videoId = e2.videoId
  /\ e1.type = e2.type
  /\ e1.description = e2.description

\* C2: in every reachable state there is at most one ACTIVE CopyrightEvent
\* per (video, category, change-description) among the events the change
\* loop of claim-detect records, whatever the interleaving of claim-detect
\* jobs and their retries.
C2_OneActivePerChange ==
  \A e1, e2 \in events :
    (/\ SameChange(e1, e2)
     /\ e1.description # TxtGone
     /\ e1.status = "ACTIVE" /\ e2.status = "ACTIVE") => e1 = e2

\* The events a step adds to the store.
Added == {e \in events' : \A f \in events : f.id # e.id}
ActiveLike(e) == {f \in events : SameChange(e, f) /\ f.status = "ACTIVE"}

C4_Reconcile ==
  [][\A j \in ClaimSyncJobIds : Returned(j) =>
       LET c == cs'[j].claim
           data == ClaimData(c, c.videoId)
           old == EventByClaimId(c.id)
           new == {e \in events' : e.youtubeClaimId = c.id}
           same(e) == e.status = data.status /\ e.policyAction = data.policyAction
       IN /\ Cardinality(new) = 1
          /\ (old # {} /\ \A e \in old : same(e)) =>
               /\ cs'[j].result = "unchanged"
               /\ events' = events
               /\ SameCounts(j)
          /\ (old # {} /\ \E e \in old : ~same(e)) =>
               /\ cs'[j].result = "updated"
               /\ cs'[j].updatedClaims = cs[j].updatedClaims + 1
               /\ cs'[j].newClaims = cs[j].newClaims
               /\ \A e \in new : same(e)
               /\ Cardinality(events') = Cardinality(events)
          /\ cs'[j].result = "unchanged" => (old # {} /\ \A e \in old : same(e))
  ]_vars

\* A second run has reconciled an existing claim as updated.
C4_Witness ==
  \E j \in ClaimSyncJobIds :
    /\ cs[j].st = "active" /\ cs[j].result = "updated" /\ cs[j].updatedClaims = 1
    /\ cs[j].newClaims = 0
    /\ \E k \in ClaimSyncJobIds : k # j /\ cs[k].st = "completed"

\* C5: once every job has ended, each CopyrightEvent a claim-sync or
\* claim-detect job created is covered by exactly one enqueued notification job.
AllEnded ==
  /\ \A j \in ClaimSyncJobIds : cs[j].st \in {"none", "completed", "failed"}
  /\ \A k \in DetectJobIds : cd[k].st \in {"none", "completed", "failed"}
Covering(e) == {n \in notifications : e.id \in n.covers}
C5_NotifiedExactlyOnce ==
  AllEnded => \A e \in events : Cardinality(Covering(e)) = 1

\* C6: previousState is written only by the last step of a claim-detect
\* attempt, after its diff, and then to the state that diff compared; an
\* attempt that fails writes nothing to the video; and a channel-sync that
\* updates an existing video leaves a non-empty previousState as it is and
\* replaces an empty one by the columns the video had before the update.
C6_SnapshotAfterDiff ==
  [][\A v \in {TrackedVideo} :
       LET old == videos[v]
           new == videos'[v]
       IN /\ \A k \in DetectJobIds :
               (cd[k].st = "active" /\ cd'[k] # cd[k]) =>
                 /\ new # old => (cd[k].pc = "save" /\ cd'[k].st = "completed"
                                  /\ new.previousState = Some(cd[k].current))
                 /\ cd'[k].st \in {"queued", "failed"} => new = old
          /\ \A j \in SyncJobIds :
               (sy[j].pc = "write" /\ sy'[j].pc = "enqueue" /\ old.exists) =>
                 new.previousState =
                   IF old.previousState # Null THEN old.previousState
                   ELSE Some(Columns(old))
  ]_vars

\* The text of each change of a diff result.
Texts(changes) == [x \in DOMAIN changes |-> changes[x].text]
E2EDone == sy[2].st = "completed" /\ \A k \in DetectJobIds : cd[k].st \in {"none", "completed"}
RegionEvents == {e \in events : e.type = "REGION_RESTRICTION"}
DetectNotifications == {n \in notifications : n.from[1] = "claim-detect"}

\* C7: in the two-sync scenario the second round's diff has the one change
\* "New region blocks: DE, FR" (so hasIssues is true); no state holds more
\* than one REGION_RESTRICTION event or more than one notification of the
\* detection; and when the scenario is over there is exactly one such event,
\* with that description, and exactly one such notification, which covers it.
C7_EndToEnd ==
  /\ \A k \in DetectJobIds :
       (SecondRound /\ cd[k].st = "active") =>
         /\ Texts(cd[k].changes) = <<"New region blocks: DE, FR">>
         /\ Len(cd[k].changes) > 0
  /\ Cardinality(RegionEvents) <= 1 /\ Cardinality(DetectNotifications) <= 1
  /\ \A e \in events : e.youtubeClaimId = 0 => e \in RegionEvents
  /\ E2EDone =>
       /\ Cardinality(RegionEvents) = 1
       /\ \A e \in RegionEvents : e.description = "New region blocks: DE, FR"
       /\ Cardinality(DetectNotifications) = 1
       /\ \A e \in RegionEvents : Covering(e) = DetectNotifications

\* Both rounds are over and the region block of the second was recorded.
C7_Witness ==
  /\ E2EDone
  /\ \E e \in RegionEvents : Covering(e) # {}
  /\ videos[TrackedVideo].previousState # Null
  /\ videos[TrackedVideo].previousState[1].blockedRegions = <<"DE", "FR">>

\* C8: a claim whose video is not in the job's video-id map changes no event
\* and no counter, and the loop moves on to the next item.
C8_UntrackedSkipped ==
  [][\A j \in ClaimSyncJobIds :
       (/\ cs[j].st = "active" /\ cs[j].pc = "item" /\ cs'[j] # cs[j]
        /\ cs'[j].pc # "catch"
        /\ cs'[j].claim.videoId \notin cs[j].map) =>
         /\ events' = events
         /\ SameCounts(j)
         /\ cs'[j].pc \in LoopPcs
         /\ cs'[j].result = "skipped"
  ]_vars

\* An appealed claim with a block rule on an untracked video was skipped.
C8_Witness ==
  \E j \in ClaimSyncJobIds :
    /\ cs[j].result = "skipped"
    /\ cs[j].claim.videoId = UntrackedVideo
    /\ mapStatus(cs[j].claim.status) = "DISPUTED"
    /\ parsePolicyAction(cs[j].claim.pol[1], cs[j].claim.pol[2]) = "block"
    /\ cs[j].newClaims = 0 /\ cs[j].updatedClaims = 0

\* C9: a claim-sync attempt that hit a 403 / access-denied error records the
\* descriptive error on the channel and is not put back on the queue.
C9_ForbiddenNotRetried ==
  [][\A j \in ClaimSyncJobIds :
       (cs[j].pc = "catch" /\ IsPermissionError(cs[j].err) /\ cs'[j] # cs[j]) =>
         /\ channel'.lastSyncError = Some(MsgAccessDenied)
         /\ cs'[j].st # "queued"
  ]_vars

\* C10: while other items remain in the batch, a failure in processing one
\* claim (claim-sync) or one video (channel-sync) does not take the job out
\* of its loop.
VideoPcs == {"item", "write", "enqueue"}
C10_ItemFailureContinues ==
  [][/\ \A j \in ClaimSyncJobIds :
          (/\ cs[j].st = "active" /\ cs[j].pc \in ItemPcs
           /\ (cs[j].i < cs[j].n \/ cs[j].hasNext)) =>
            cs'[j].pc # "catch"
     /\ \A j \in SyncJobIds :
          (/\ sy[j].st = "active" /\ sy[j].pc \in VideoPcs
           /\ (sy[j].i < sy[j].n \/ sy[j].hasNext)) =>
            sy'[j].pc # "catch"
  ]_vars

\* C11: when the credential refresh of a channel-sync job has failed, with
\* whatever message, the catch block leaves the channel in status ERROR; and
\* a job that starts on a channel in status ERROR ends without going on to
\* a refresh or a platform call.
C11_RefreshFailureMarksError ==
  [][\A j \in SyncJobIds :
       /\ (sy[j].pc = "catch" /\ sy[j].err \in RefreshErrors /\ sy'[j] # sy[j]) =>
            channel'.status = "ERROR"
       /\ (sy[j].st = "queued" /\ sy'[j] # sy[j] /\ channel.status = "ERROR") =>
            sy'[j].st # "active"
  ]_vars

\* Channel-sync job j takes a step.
SyStep(j) == sy'[j] # sy[j]
PlatformCallPcs == {"info", "list"}

\* C12: a channel-sync job goes to the refresh exactly when the credential it
\* read is expired; the step after the refresh stores the new access and
\* refresh credentials and an unexpired expiry; a job reaches its first
\* platform call either from that store step or, without any refresh, from
\* reading an unexpired credential; and every platform call is made with the
\* refreshed access credential if the job refreshed, else with the stored one.
C12_RefreshBeforeCalls ==
  [][\A j \in SyncJobIds : SyStep(j) =>
       /\ (sy[j].st = "queued" /\ sy'[j].st = "active") =>
            /\ (sy'[j].pc = "refresh") <=> channel.tokenExpired
            /\ (sy'[j].pc = "info") <=> ~channel.tokenExpired
            /\ ~channel.tokenExpired =>
                 (sy'[j].tokens = Null /\ sy'[j].accessToken = Some(channel.accessToken))
       /\ (sy[j].pc = "persist" /\ sy'[j].pc # "catch") =>
            /\ sy'[j].pc = "info"
            /\ channel'.accessToken = sy[j].tokens[1].accessToken
            /\ channel'.refreshToken = sy[j].tokens[1].refreshToken
            /\ ~channel'.tokenExpired
       /\ (sy'[j].pc = "info") =>
            \/ sy[j].pc = "persist"
            \/ (sy[j].st = "queued" /\ ~channel.tokenExpired)
       /\ (sy[j].st = "active" /\ sy[j].pc \in PlatformCallPcs) =>
            /\ sy[j].accessToken # Null
            /\ sy[j].tokens # Null =>
                 sy[j].accessToken = Some(IssuedToken(j, sy[j].attemptsMade))
            /\ sy[j].tokens = Null => sy[j].refreshToken = Null
  ]_vars

\* A job that found the credential expired lists videos with the credential
\* its refresh obtained, which is the one the channel row holds.
C12_Witness ==
  \E j \in SyncJobIds :
    /\ sy[j].st = "active" /\ sy[j].pc = "list"
    /\ sy[j].tokens # Null
    /\ sy[j].accessToken = Some(channel.accessToken)
    /\ channel.accessToken = IssuedToken(j, sy[j].attemptsMade)

\* The failure notifications a step enqueues.
FailureNotices == {n \in notifications' \ notifications : n.type = "SYNC_ERROR"}
\* An attempt of a job ends in failure in this step, and for good.
AttemptFails(old, new) == new.attemptsMade = old.attemptsMade + 1
NoticeOnlyWhenTerminal(old, new) ==
  AttemptFails(old, new) =>
    Cardinality(FailureNotices) = IF new.st = "failed" THEN 1 ELSE 0

\* C13: for channel-sync, claim-sync and claim-detect jobs alike, the step in
\* which an attempt fails enqueues one failure notification when it was the
\* last allowed attempt and none when retries remain.
C13_TerminalFailureNotified ==
  [][/\ \A j \in SyncJobIds : NoticeOnlyWhenTerminal(sy[j], sy'[j])
     /\ \A j \in ClaimSyncJobIds : NoticeOnlyWhenTerminal(cs[j], cs'[j])
     /\ \A k \in DetectJobIds : NoticeOnlyWhenTerminal(cd[k], cd'[k])
  ]_vars

\* C17: by the time a channel-sync job completes successfully, a claim-sync
\* job for the channel has been put on the claim-sync queue.
C17_SyncLeadsToClaimSync ==
  [][\A j \in SyncJobIds :
       (sy[j].st = "active" /\ sy[j].pc = "finish" /\ sy'[j].st = "completed")
         => \E c \in ClaimSyncJobIds : cs'[c].st # "none"
  ]_vars

\* C18: a claim-sync run that updated at least one existing claim has enqueued
\* a notification by the time it completes, also when it created no claim.
C18_UpdatedNotified ==
  [][\A j \in ClaimSyncJobIds :
       (cs[j].st = "active" /\ cs'[j].st = "completed" /\ cs[j].updatedClaims > 0)
         => \E n \in notifications' : n.from = <<"claim-sync", j, cs[j].attemptsMade>>
  ]_vars

\* The ACTIVE "no longer accessible" events of a video.
GoneEvents(v) ==
  {e \in events : e.videoId = v /\ e.status = "ACTIVE" /\ e.description = TxtGone}

\* C19: however often claim-detect runs for a video that vanished from the
\* platform, at most one ACTIVE "no longer accessible" event exists for it.
C19_GoneDeduplicated ==
  \A v \in DOMAIN videos : Cardinality(GoneEvents(v)) <= 1

\* C20: once contentOwnerId is set no step changes it, and no claim-sync job
\* performs the content-owner lookup while it is set.
C20_OwnerImmutable ==
  [][/\ channel.contentOwnerId # Null
          => channel'.contentOwnerId = channel.contentOwnerId
     /\ \A j \in ClaimSyncJobIds :
          (cs[j].st = "active" /\ cs[j].pc = "owner" /\ cs'[j] # cs[j])
            => channel.contentOwnerId = Null
  ]_vars

\* The claim-detect jobs a step puts on the queue.
NewDetectJobs == {k \in DetectJobIds : cd[k].st = "none" /\ cd'[k].st # "none"}

TickJobs == {q \in channelSyncQueue' : q.jobId[3] = sched'.tick}

\* The channels that were ACTIVE when the tick now ending ran its query.
ActiveAtTick == IF sched.pc = "add" THEN Range(sched.channels) ELSE ActiveChannels

\* C15: when a tick ends, the queue holds exactly one job of that tick for
\* every channel that was ACTIVE at the tick's query and none for any other
\* channel, and the job of the i-th enumerated channel (from 0) has a delay of
\* 5000 ms times i; the query enumerates exactly the ACTIVE channels; the
\* first tick is the startup tick and later ticks follow the interval.
C15_TickFansOut ==
  [][/\ (sched.pc # "waiting" /\ sched'.pc = "waiting") =>
          /\ {q.channelId : q \in TickJobs} = ActiveAtTick
          /\ Cardinality(TickJobs) = Cardinality(ActiveAtTick)
          /\ \A q \in TickJobs :
               \E i \in 0..(Len(sched'.channels) - 1) :
                 sched'.channels[i + 1] = q.channelId /\ q.delay = 5000 * i
     /\ (sched.pc \in {"startup", "interval"} /\ sched'.pc = "add") =>
          Range(sched'.channels) = ActiveChannels
     /\ sched'.tick > sched.tick =>
          sched.pc = IF sched.tick = 0 THEN "startup" ELSE "interval"
  ]_vars

\* The state of notification job n after the step.
NtStateNext(n) == IF n \in DOMAIN nt' THEN nt'[n] ELSE NtQueued

\* The changes of queue state that do not count an attempt: a job is added,
\* taken by a worker, completes, or is taken and returns within one step.
QuietMoves ==
  {<<"none", "queued">>, <<"queued", "active">>, <<"active", "completed">>,
   <<"queued", "completed">>}

\* One step of one job with the given retry budget.
Lifecycle(old, new, budget) ==
  /\ new.attemptsMade <= budget
  /\ old.st \in {"completed", "failed"} => new = old
  /\ \/ /\ new.attemptsMade = old.attemptsMade
        /\ new.st # old.st => <<old.st, new.st>> \in QuietMoves
     \/ /\ new.attemptsMade = old.attemptsMade + 1
        /\ old.st \in {"queued", "active"}
        /\ new.st = IF new.attemptsMade < budget THEN "queued" ELSE "failed"

\* C14: every job moves QUEUED -> ACTIVE -> COMPLETED, or from an attempt that
\* fails back to QUEUED while attempts remain and to FAILED when none does;
\* channel-sync and claim-detect jobs are attempted at most 3 times,
\* claim-sync jobs at most 2 times, notification jobs at most 5 times; a
\* COMPLETED or FAILED job never changes again.
C14_JobLifecycle ==
  [][/\ \A j \in SyncJobIds : Lifecycle(sy[j], sy'[j], 3)
     /\ \A k \in DetectJobIds : Lifecycle(cd[k], cd'[k], 3)
     /\ \A j \in ClaimSyncJobIds : Lifecycle(cs[j], cs'[j], 2)
     /\ \A n \in notifications : Lifecycle(NtState(n), NtStateNext(n), 5)
  ]_vars

\* A notification job has failed five times and is terminally FAILED.
C14_Witness ==
  \E n \in notifications : NtState(n).st = "failed" /\ NtState(n).attemptsMade = 5

\* C21: a claim-detect pass on a video without a stored snapshot flags a
\* region restriction exactly when the platform reports at least one blocked
\* region, so a video that is blocked when first observed gets its
\* REGION_RESTRICTION change.
C21_FirstObservation ==
  [][\A k \in DetectJobIds :
       (/\ cd[k].st = "queued" /\ cd'[k].st = "active" /\ cd'[k].pc # "gone"
        /\ videos[cd[k].video].previousState = Null)
         => ((\E i \in DOMAIN cd'[k].changes :
                EventTypeOf(cd'[k].changes[i]) = "REGION_RESTRICTION")
             <=> Len(cd'[k].current.blockedRegions) > 0)
  ]_vars

\* The diff engine has returned for a pair with a previous snapshot.
DiffReturned ==
  /\ call.fn = "detectPotentialIssues"
  /\ call.result # Null
  /\ call.args[2] # Null

RegionMessages(changes) == SelectSeq(changes, LAMBDA c : c.head = TxtNewBlocks)
\* The messages of a change list that report region r as newly blocked.
MessagesNaming(r, changes) ==
  {x \in DOMAIN changes :
     changes[x].head = TxtNewBlocks /\ r \in Range(changes[x].args)}
NewlyBlocked(cur, prev) == Range(cur.blockedRegions) \ Range(prev.blockedRegions)
OneAggregateMessage(cur, prev, changes) ==
  /\ Len(RegionMessages(changes)) = IF NewlyBlocked(cur, prev) = {} THEN 0 ELSE 1
  /\ \A x \in DOMAIN changes :
       changes[x].head = TxtNewBlocks
         => changes[x].text = TxtNewBlocks \o Join(changes[x].args)

\* C22: for every pair of blocked-region lists, each region that is in the
\* current list and not in the previous one is reported by exactly one message,
\* the one aggregate region message; a region in both lists is reported by
\* none; when no region is newly blocked there is no region message.
C22_EachNewRegionOnce ==
  DiffReturned =>
    LET cur == call.args[1]
        prev == call.args[2][1]
        changes == call.result[1].changes
    IN /\ OneAggregateMessage(cur, prev, changes)
       /\ \A r \in Regions :
            Cardinality(MessagesNaming(r, changes)) =
              IF r \in NewlyBlocked(cur, prev) THEN 1 ELSE 0

C22_Witness ==
  /\ DiffReturned
  /\ call.args[1].blockedRegions = <<"DE", "FR">>
  /\ call.args[2][1].blockedRegions = <<"FR">>
  /\ \E x \in DOMAIN call.result[1].changes :
       call.result[1].changes[x].text = "New region blocks: DE"

\* The pair of snapshots of the call shows no difference the engine looks at.
SamePair ==
  /\ call.fn = "detectPotentialIssues"
  /\ call.args[2] # Null
  /\ call.args[1].privacyStatus = call.args[2][1].privacyStatus
  /\ call.args[1].uploadStatus = call.args[2][1].uploadStatus
  /\ Range(call.args[1].blockedRegions) = Range(call.args[2][1].blockedRegions)

\* C23: the diff of a current state against a previous snapshot with the same
\* privacy status, upload status and blocked regions has hasIssues = false and
\* an empty change list, and running the diff again on the same pair returns
\* the same result.
C23_NoChangeNoIssue ==
  [][(SamePair /\ call'.result # Null /\ call'.runs > call.runs)
       => /\ call'.result = Some([hasIssues |-> FALSE, changes |-> <<>>])
          /\ call.result # Null => call'.result = call.result]_vars

C23_Witness ==
  /\ SamePair
  /\ call.runs = 2
  /\ call.args[1].blockedRegions = <<"DE", "FR">>
  /\ call.result = Some([hasIssues |-> FALSE, changes |-> <<>>])

\* The fixed heads of the messages the delta rules that fire add, in the
\* order region-block delta, upload-status regression, privacy regression.
FiringRules(cur, prev) ==
  SelectSeq(<<TxtNewBlocks, TxtUpload, TxtPrivacy>>,
            LAMBDA h :
              \/ h = TxtNewBlocks /\ NewlyBlocked(cur, prev) # {}
              \/ h = TxtUpload /\ prev.uploadStatus = "processed"
                               /\ cur.uploadStatus # "processed"
              \/ h = TxtPrivacy /\ prev.privacyStatus = "public"
                                /\ cur.privacyStatus # "public")

\* C28: with a previous snapshot the delta rules are not exclusive and fire in
\* the order region-block delta, upload-status regression, privacy regression,
\* each adding exactly one message; hasIssues is true exactly when the change
\* list is non-empty; a region message is classified REGION_RESTRICTION, an
\* upload or privacy message MONETIZATION_CHANGE.
C28_RulesInOrder ==
  DiffReturned =>
    LET cur == call.args[1]
        prev == call.args[2][1]
        result == call.result[1]
    IN /\ [x \in DOMAIN result.changes |-> result.changes[x].head] = FiringRules(cur, prev)
       /\ result.hasIssues <=> Len(result.changes) > 0
       /\ \A x \in DOMAIN result.changes :
            EventTypeOf(result.changes[x]) =
              IF result.changes[x].head = TxtNewBlocks
              THEN "REGION_RESTRICTION" ELSE "MONETIZATION_CHANGE"

C28_Witness ==
  /\ DiffReturned
  /\ call.result[1].hasIssues
  /\ Texts(call.result[1].changes) =
       <<"New region blocks: DE", "Upload status changed from processed to rejected",
         "Privacy status changed from public to private">>

\* A string of the form PT#H#M#S with any part optional and at least one
\* present, and nothing before or after.
IsIsoDuration(str) ==
  /\ Len(str) > 2 /\ str[1] = "P" /\ str[2] = "T"
  /\ LET h == UnitGroup(str, 3, "H")
         mi == UnitGroup(str, h.next, "M")
         sec == SecondsGroup(str, mi.next)
     IN sec.next = Len(str) + 1

\* A string is given and it is not a duration.
NotADuration(str) == str # <<>> /\ ~IsIsoDuration(str)

\* Missing or empty segments, or a start or duration string that is not a
\* valid duration.
Malformed(matchInfo) ==
  \/ matchInfo = Null
  \/ matchInfo[1].matchSegments = Null
  \/ Len(matchInfo[1].matchSegments[1]) = 0
  \/ LET segment == matchInfo[1].matchSegments[1][1]
     IN \/ segment.video_segment = Null
        \/ NotADuration(segment.video_segment[1].start)
        \/ NotADuration(segment.video_segment[1].duration)

\* C24: parseMatchInfo returns null for malformed input (missing or empty
\* segments, or a start or duration string that is not a valid ISO-8601
\* duration), and otherwise a span whose end minus start is the parsed duration
\* in milliseconds.
C24_SpanOrNull ==
  (call.fn = "parseMatchInfo" /\ call.result # Null) =>
    IF Malformed(call.args[1])
    THEN call.result[1] = Null
    ELSE /\ call.result[1] # Null
         /\ LET details == call.result[1][1]
            IN (details.matchEndMs - details.matchStartMs) * UnitsPerMs
                 = details.matchDurationSecs

\* Job j's reconcile of the claim it has just looked up, which has an event.
LookedUp(j) ==
  /\ cs[j].st = "active" /\ cs[j].pc = "item"
  /\ cs'[j] # cs[j]
  /\ cs'[j].result # "skipped" \/ cs'[j].pc = "update"
  /\ EventByClaimId(cs'[j].claim.id) # {}

\* e2 is e1 with status, policyAction and rawData taken from data.
OnlyCompared(e1, e2, data) ==
  /\ e2.status = data.status
  /\ e2.policyAction = data.policyAction
  /\ e2.rawData = data.rawData
  /\ e2.id = e1.id /\ e2.youtubeClaimId = e1.youtubeClaimId
  /\ e2.type = e1.type /\ e2.videoId = e1.videoId
  /\ e2.matchStartMs = e1.matchStartMs /\ e2.matchEndMs = e1.matchEndMs
  /\ e2.detectedAt = e1.detectedAt /\ e2.description = e1.description
  /\ e2.claimantId = e1.claimantId

\* C26: a reconcile that finds an event for the claim identifier compares only
\* status and policyAction: when both are equal nothing is written, whatever
\* else of the fetched claim differs; when either differs exactly status,
\* policyAction and the raw payload of that event are updated and every other
\* field, and every other event, is left as it was.
C26_NarrowCompare ==
  [][\A j \in ClaimSyncJobIds :
       /\ LookedUp(j) =>
            LET e == CHOOSE x \in EventByClaimId(cs'[j].claim.id) : TRUE
                data == ClaimData(cs'[j].claim, cs'[j].claim.videoId)
            IN /\ events' = events
               /\ IF e.status = data.status /\ e.policyAction = data.policyAction
                  THEN cs'[j].result = "unchanged" /\ cs'[j].pc # "update"
                  ELSE cs'[j].pc = "update"
       /\ (cs[j].pc = "update" /\ cs'[j].result = "updated" /\ cs'[j] # cs[j]) =>
            LET data == ClaimData(cs[j].claim, cs[j].claim.videoId)
            IN /\ \A e1 \in events : e1.id # cs[j].existing => e1 \in events'
               /\ \E e1 \in events, e2 \in events' :
                    /\ e1.id = cs[j].existing
                    /\ OnlyCompared(e1, e2, data)
                    /\ events' = (events \ {e1}) \cup {e2}
  ]_vars

\* A reconcile has returned UNCHANGED for a claim whose match timecodes and
\* creation time differ from the stored event's.
C26_Witness ==
  \E j \in ClaimSyncJobIds, e \in events :
    /\ cs[j].result = "unchanged"
    /\ e.youtubeClaimId = cs[j].claim.id
    /\ LET data == ClaimData(cs[j].claim, cs[j].claim.videoId)
       IN /\ e.matchStartMs = Some(0) /\ e.matchEndMs = Some(90000)
          /\ data.matchStartMs = Some(30000) /\ data.matchEndMs = Some(31500)
          /\ data.detectedAt # e.detectedAt
          /\ data.rawData # e.rawData

\* The policy action the claim expects of a fetched claim.
ExpectedPolicyAction(claim) ==
  LET rules == IF claim.pol[2] # Null THEN claim.pol[2] ELSE claim.pol[1]
  IN IF rules = Null \/ rules = Some(<<>>) THEN "unknown" ELSE ToLower(rules[1][1])

\* C27: a reconcile that finds no event for the claim identifier creates
\* exactly one and returns NEW; its category is STRIKE exactly when the policy
\* action is "block" and CLAIM otherwise, the policy action being the
\* lowercased action of the first rule of appliedPolicy when it is present,
\* else of policy, and "unknown" when there are no rules.
C27_CreatesOne ==
  [][\A j \in ClaimSyncJobIds :
       /\ (/\ cs[j].st = "active" /\ cs[j].pc = "item" /\ cs'[j] # cs[j]
           /\ cs'[j].result # "skipped" \/ cs'[j].pc = "create"
           /\ EventByClaimId(cs'[j].claim.id) = {})
            => cs'[j].pc = "create" /\ events' = events
       /\ (cs[j].pc = "create" /\ cs'[j] # cs[j]) =>
            /\ cs'[j].result = "new"
            /\ events \subseteq events'
            /\ Cardinality(events' \ events) = 1
            /\ \A e \in events' \ events :
                 /\ e.youtubeClaimId = cs[j].claim.id
                 /\ e.policyAction = ExpectedPolicyAction(cs[j].claim)
                 /\ e.type = IF ExpectedPolicyAction(cs[j].claim) = "block"
                             THEN "STRIKE" ELSE "CLAIM"
  ]_vars

\* A reconcile has created a STRIKE from an applied policy that blocks while
\* the claim's own policy monetizes.
C27_Witness ==
  \E j \in ClaimSyncJobIds, e \in events :
    /\ cs[j].result = "new"
    /\ cs[j].claim.pol = <<Some(<<"monetize">>), Some(<<"Block">>)>>
    /\ e.youtubeClaimId = cs[j].claim.id
    /\ e.type = "STRIKE" /\ e.policyAction = "block"

\* The attributions to a normalized name: the calls that were given a name
\* with that normalization; those of them whose counter step is done.
Attributions(nameNormalized) ==
  {i \in AttributionIds :
     /\ at[i].claimantName # Null
     /\ normalizeClaimantName(at[i].claimantName[1]) = nameNormalized}
Counted(nameNormalized) ==
  {i \in Attributions(nameNormalized) : at[i].pc \in {"create", "done"}}
NormalizedNames == {normalizeClaimantName(n) : n \in ClaimantNames}
TotalClaims(c) ==
  IF \E r \in claimantStatistics : r.claimantId = c.id
  THEN (CHOOSE r \in claimantStatistics : r.claimantId = c.id).totalClaims
  ELSE 0

\* C25: under any interleaving of concurrent attributions there is at most
\* one Claimant per normalized name, it keeps the display name of its first
\* writer, and its counter is the number of attributions made to it: once N
\* attributions to a normalized name are through, exactly one Claimant row has
\* that name and its totalClaims is N.
C25_AtomicAttribution ==
  /\ [](\A n \in NormalizedNames :
          /\ Cardinality(ClaimantByName(n)) <= 1
          /\ Cardinality({r \in claimantStatistics :
                            \E c \in ClaimantByName(n) : r.claimantId = c.id}) <= 1
          /\ \A c \in ClaimantByName(n) :
               TotalClaims(c) = Cardinality(Counted(n))
          /\ (Counted(n) # {} /\ Counted(n) = Attributions(n))
               => /\ Cardinality(ClaimantByName(n)) = 1
                  /\ \A e \in events :
                       e.claimantId # Null => \E c \in claimant : e.claimantId = Some(c.id))
  /\ [][\A c \in claimant : c \in claimant']_vars

\* Three attributions to one normalized name under two display names are
\* through: one row, counter 3.
C25_Witness ==
  /\ \A i \in AttributionIds : at[i].pc = "done"
  /\ Cardinality(Attributions("universal music group")) = NumAttributions
  /\ {at[i].claimantName[1] : i \in Attributions("universal music group")}
       = {"Universal Music Group, Inc.", "universal music group inc"}
  /\ \E c \in claimant : TotalClaims(c) = NumAttributions
  /\ Cardinality(claimant) = 1

\* What a job can have an effect on: the Channel, Video and CopyrightEvent
\* rows and the queues.
Effects == <<channel, videos, events, nextEventId, notifications, cd, channelSyncQueue>>

\* C29: a channel-sync or claim-sync job whose channel is gone or not ACTIVE
\* when the job starts completes successfully, at once and without effect: it
\* makes no platform call (it never enters the handler's body), writes no
\* Channel, Video or CopyrightEvent row and enqueues no job.
C29_InactiveNoEffect ==
  [][/\ \A j \in ClaimSyncJobIds :
          (cs[j].st = "queued" /\ cs'[j] # cs[j] /\ channel.status # "ACTIVE")
            => /\ cs'[j] = CsEnd(cs[j], "completed")
               /\ cs'[j].attemptsMade = cs[j].attemptsMade
               /\ UNCHANGED Effects
               /\ \A k \in ClaimSyncJobIds \ {j} : cs'[k] = cs[k]
               /\ UNCHANGED sy
     /\ \A j \in SyncJobIds :
          (sy[j].st = "queued" /\ sy'[j] # sy[j] /\ channel.status # "ACTIVE")
            => /\ sy'[j] = SyEnd(sy[j], "completed")
               /\ sy'[j].attemptsMade = sy[j].attemptsMade
               /\ UNCHANGED Effects
               /\ \A k \in SyncJobIds \ {j} : sy'[k] = sy[k]
               /\ UNCHANGED cs
  ]_vars

\* A claim-sync job and a channel-sync job of a channel that was paused or
\* deleted before they started have completed, and nothing was written.
C29_Witness ==
  /\ channel.status = Deleted
  /\ cs[1].st = "completed" /\ sy[1].st = "completed"
  /\ channel.lastClaimSyncAt = Null /\ channel.lastSyncAt = Null
  /\ channel.lastSyncError = Null /\ channel.contentOwnerId = Null
  /\ events = {} /\ notifications = {}
  /\ \A k \in DetectJobIds : cd[k].st = "none"

\* C30: lastSyncAt and lastClaimSyncAt are advanced, and lastSyncError is
\* cleared with them, only by the step that follows the last page of a run; an
\* attempt that fails has not advanced the timestamp, leaves the error message
\* in lastSyncError, and is rethrown to the queue, which retries or fails the
\* job.
C30_TimestampOnlyOnSuccess ==
  [][/\ channel'.lastClaimSyncAt # channel.lastClaimSyncAt
          => /\ \E j \in ClaimSyncJobIds : cs[j].st = "active" /\ cs[j].pc = "finish"
             /\ channel'.lastSyncError = Null
     /\ channel'.lastSyncAt # channel.lastSyncAt
          => /\ \E j \in SyncJobIds : sy[j].st = "active" /\ sy[j].pc = "finish"
             /\ channel'.lastSyncError = Null
     /\ \A j \in ClaimSyncJobIds :
          cs'[j].attemptsMade = cs[j].attemptsMade + 1
            => /\ channel'.lastClaimSyncAt # Some(j)
               /\ channel'.lastSyncError \in {Some(cs[j].err), Some(MsgAccessDenied)}
               /\ cs'[j].st \in {"queued", "failed"}
     /\ \A j \in SyncJobIds :
          sy'[j].attemptsMade = sy[j].attemptsMade + 1
            => /\ channel'.lastSyncAt = channel.lastSyncAt
               /\ channel'.lastSyncError = Some(sy[j].err)
               /\ sy'[j].st \in {"queued", "failed"}
  ]_vars

TypeOK == faults \in Nat
====
